---- MODULE Spec2Model ----
(***************************************************************************)
(* AISonobuoy, DataScience/AisAudioLabeler.py: the labelling pipeline.     *)
(*                                                                         *)
(*   load_ais_files      position records, sorted by timestamp             *)
(*   augment_ais_data    status intervals (shp), the two per-second ship   *)
(*                       count tables, and the annotated records           *)
(*   get_shp_dictionary  the status intervals kept in the file shp.json    *)
(*   export_audio_clips  candidate groups, selection of the closest ship,  *)
(*                       resolution of the recording files and the clip    *)
(*                                                                         *)
(* Timestamps are integer seconds.  The geometry routine                   *)
(* (lu.compute_source_metrics) is outside the model: the distance it       *)
(* returns for a record is an input carried by the record (field metric).  *)
(***************************************************************************)
EXTENDS Integers, Sequences, FiniteSets, TLC

VARIABLES
    ais,            \* the AIS dataframe: a sequence of position records
    hmd,            \* the hydrophone metadata: a sequence of recording entries
    corrupt,        \* index of the recording that cannot be decoded, 0: none
    max_n_ships,    \* sampling case: maximum number of ships underway
    max_distance,   \* sampling case: maximum distance
    shp,            \* mmsi -> status -> sequence of <<start, stop>>
    pc,             \* "loaded", "augmented", "done", "failed"
    g,              \* export_audio_clips: rows of ais_g processed so far
    mmsis,          \* export_audio_clips: the ships selected so far
    n_clips,        \* export_audio_clips: the clips exported so far
    clips,          \* the exported clips, one record each, in order
    trail,          \* per processed row of ais_g: its index in ais, the
                    \* selection made for it and the outcome
    shp_json,       \* the file shp.json: whether it exists, and its document
    call,           \* get_shp_dictionary: the arguments of the last call and
                    \* the file as that call found it
    returned,       \* what the function that ended last returned or raised
    files,          \* the other files on disk: name -> content
    now,            \* the clock, in seconds
    proc,           \* the local variables of the running function of a buoy
                    \* service, or of main
    hist            \* what has happened so far: a set of events

\* The variables of the labelling pipeline and those of the buoy services.
labeler == <<ais, hmd, corrupt, max_n_ships, max_distance, shp, pc, g, mmsis,
             n_clips, clips, trail, shp_json, call, returned>>

buoy == <<files, now, proc, hist>>

vars == <<labeler, buoy>>

(***************************************************************************)
(* Generic helpers on sequences and sets.                                  *)
(***************************************************************************)
Range(s) == {s[i] : i \in DOMAIN s}

Last(s) == s[Len(s)]

Min2(a, b) == IF a <= b THEN a ELSE b

SetMin(S) == CHOOSE x \in S : \A y \in S : x <= y

SetMax(S) == CHOOSE x \in S : \A y \in S : x >= y

Indices(s) == [i \in 1..Len(s) |-> i]

\* The distinct values of s in order of first appearance (pandas unique(),
\* and the group order of groupby(sort=False)).
Unique(s) ==
    LET first == SelectSeq(Indices(s), LAMBDA i : \A j \in 1..(i - 1) : s[j] # s[i])
    IN  [k \in DOMAIN first |-> s[first[k]]]

(***************************************************************************)
(* Program constants.                                                      *)
(***************************************************************************)
UnderWay == "UnderWayUsingEngine"

status_for_underway == {"UnderWayUsingEngine"}

status_for_not_underway ==
    {"NotUnderWayUsingEngine", "AtAnchor", "Moored", "NotUnderCommand"}

UnderwayDiff == 10

NotUnderwayDiff == 180

OtherDiff == 180

MinReports == 3

MaxClipSeconds == 540

(***************************************************************************)
(* augment_ais_data.                                                       *)
(***************************************************************************)
\* Lines 394-399: the timestamp difference that splits two intervals.
TimestampDiff(status) ==
    IF status \in status_for_underway THEN UnderwayDiff
    ELSE IF status \in status_for_not_underway THEN NotUnderwayDiff
    ELSE OtherDiff

\* A variant that also splits at a difference equal to d.
SplitPointsInclusive(ts, d) ==
    SelectSeq(Indices(ts), LAMBDA i : i > 1 /\ ts[i] - ts[i - 1] >= d)

\* Lines 407-409: np.where(np.diff(timestamp) > d)[0] + 1, the (1-based)
\* positions at which a new timestamp set starts, the first set aside.
SplitPoints(ts, d) ==
    SelectSeq(Indices(ts), LAMBDA i : i > 1 /\ ts[i] - ts[i - 1] > d)

\* Lines 407-409: np.split(timestamp, ...) of a non-empty sequence: the
\* pieces between consecutive split points.
TimestampSets(ts, d) ==
    LET cuts == <<1>> \o SplitPoints(ts, d)
    IN  [k \in DOMAIN cuts |->
            SubSeq(ts, cuts[k],
                   IF k < Len(cuts) THEN cuts[k + 1] - 1 ELSE Len(ts))]

\* Lines 342-352: the groups of groupby(["mmsi"], sort=False), in order of
\* first appearance, and the rows of one group.
Groups(a) == Unique([i \in DOMAIN a |-> a[i].mmsi])

ShipRows(a, m) == SelectSeq(a, LAMBDA r : r.mmsi = m)

\* A variant that skips a group with fewer than two reports.
SkippedBelowTwo(a, m) == Len(ShipRows(a, m)) < 2

\* Line 350: a group with fewer than three reports is skipped.
Skipped(a, m) == Len(ShipRows(a, m)) < MinReports

\* Lines 387, 402-403: the statuses of a ship in order of first appearance and
\* the timestamps of the ship's rows with one status.
Statuses(a, m) ==
    LET rows == ShipRows(a, m) IN Unique([i \in DOMAIN rows |-> rows[i].status])

StatusTimestamps(a, m, status) ==
    LET rows == SelectSeq(a, LAMBDA r : r.mmsi = m /\ r.status = status)
    IN  [i \in DOMAIN rows |-> rows[i].timestamp]

\* A variant that also keeps a timestamp set of one timestamp.
IntervalsAll(sets) == [k \in DOMAIN sets |-> <<sets[k][1], Last(sets[k])>>]

\* Lines 410-417: the intervals collected for one ship and one status: one
\* (start, stop) per timestamp set whose first and last timestamps differ.
Intervals(sets) ==
    LET kept == SelectSeq(sets, LAMBDA set : set[1] # Last(set))
    IN  [k \in DOMAIN kept |-> <<kept[k][1], Last(kept[k])>>]

StatusIntervals(a, m, status) ==
    Intervals(TimestampSets(StatusTimestamps(a, m, status), TimestampDiff(status)))

\* A variant that leaves out a status without intervals.
ShpOfNonEmpty(a) ==
    LET kept == {m \in Range(Groups(a)) : ~Skipped(a, m)}
    IN  [m \in kept |->
            [s \in {x \in Range(Statuses(a, m)) : StatusIntervals(a, m, x) # <<>>}
                |-> StatusIntervals(a, m, s)]]

\* Lines 341, 359, 410-417: the SHP dictionary.
ShpOf(a) ==
    LET kept == {m \in Range(Groups(a)) : ~Skipped(a, m)}
    IN  [m \in kept |->
            [s \in Range(Statuses(a, m)) |-> StatusIntervals(a, m, s)]]

\* Lines 411-429: one table update per timestamp set of a status that is in
\* one of the two status lists, in the order the loops reach them: ships in
\* group order, statuses in order of first appearance, sets in time order.
\* The update is made for every timestamp set, also for one whose first and
\* last timestamps are equal.
StatusUpdates(a, m, status) ==
    LET sets == TimestampSets(StatusTimestamps(a, m, status),
                              TimestampDiff(status))
    IN  [i \in DOMAIN sets |->
            [mmsi |-> m, status |-> status,
             start |-> sets[i][1], stop |-> Last(sets[i])]]

RECURSIVE ShipUpdatesFrom(_, _, _, _)
ShipUpdatesFrom(a, m, sts, i) ==
    IF i > Len(sts) THEN <<>>
    ELSE StatusUpdates(a, m, sts[i]) \o ShipUpdatesFrom(a, m, sts, i + 1)

RECURSIVE UpdatesFrom(_, _, _)
UpdatesFrom(a, gs, i) ==
    IF i > Len(gs) THEN <<>>
    ELSE (IF Skipped(a, gs[i]) THEN <<>>
          ELSE ShipUpdatesFrom(a, gs[i], Statuses(a, gs[i]), 1))
         \o UpdatesFrom(a, gs, i + 1)

Updates(a) == UpdatesFrom(a, Groups(a), 1)

\* Lines 326-338: the range of the tables and the empty table.
MinT(a, h) ==
    Min2(SetMin({a[i].timestamp : i \in DOMAIN a}),
         SetMin({h[i].start_timestamp : i \in DOMAIN h}))

MaxT(a, h) ==
    LET ta == SetMax({a[i].timestamp : i \in DOMAIN a})
        th == SetMax({h[i].start_timestamp + h[i].duration : i \in DOMAIN h})
    IN  IF ta >= th THEN ta ELSE th

EmptyTable(a, h) == [t \in MinT(a, h)..MaxT(a, h) |-> [count |-> 0, mmsis |-> <<>>]]

\* A variant that keeps, in the list of a row, the last ship only.
ApplyUpdateLatest(table, u) ==
    [t \in DOMAIN table |->
        IF u.start <= t /\ t <= u.stop
        THEN [count |-> table[t].count + 1, mmsis |-> <<u.mmsi>>]
        ELSE table[t]]

\* Lines 421-424 and 426-429: .loc[start:stop, "count"] += 1 and the append of
\* the mmsi to the list of every row start..stop (a label slice: inclusive).
ApplyUpdate(table, u) ==
    [t \in DOMAIN table |->
        IF u.start <= t /\ t <= u.stop
        THEN [count |-> table[t].count + 1,
              mmsis |-> Append(table[t].mmsis, u.mmsi)]
        ELSE table[t]]

\* A variant that takes every status that is not an underway status for a
\* status not underway.
RECURSIVE ApplyUpdatesElse(_, _, _, _)
ApplyUpdatesElse(table, us, kind, i) ==
    IF i > Len(us) THEN table
    ELSE ApplyUpdatesElse(IF \/ us[i].status \in kind
                             \/ /\ kind = status_for_not_underway
                                /\ us[i].status \notin status_for_underway
                          THEN ApplyUpdate(table, us[i])
                          ELSE table,
                          us, kind, i + 1)

RECURSIVE ApplyUpdates(_, _, _, _)
ApplyUpdates(table, us, kind, i) ==
    IF i > Len(us) THEN table
    ELSE ApplyUpdates(IF us[i].status \in kind THEN ApplyUpdate(table, us[i])
                      ELSE table,
                      us, kind, i + 1)

\* Lines 420-424: the table of ships underway.
ShipcountUw(a, h) == ApplyUpdates(EmptyTable(a, h), Updates(a), status_for_underway, 1)

\* Lines 425-429: the table of ships not underway.
ShipcountNuw(a, h) ==
    ApplyUpdates(EmptyTable(a, h), Updates(a), status_for_not_underway, 1)

\* A variant that leaves the records of a skipped ship as lines 317-323
\* initialise them.
AnnotateKept(a, uw, nuw) ==
    [i \in DOMAIN a |->
        IF Skipped(a, a[i].mmsi) THEN a[i]
        ELSE [a[i] EXCEPT
                 !.distance = a[i].metric,
                 !.shipcount_uw = uw[a[i].timestamp].count,
                 !.mmsis_uw = uw[a[i].timestamp].mmsis,
                 !.shipcount_nuw = nuw[a[i].timestamp].count,
                 !.mmsis_nuw = nuw[a[i].timestamp].mmsis]]

\* A variant that returns the records of the ships that are not skipped.
AnnotateGroups(a, uw, nuw) ==
    LET rows == SelectSeq(a, LAMBDA r : ~Skipped(a, r.mmsi))
    IN  [i \in DOMAIN rows |->
            [rows[i] EXCEPT
                !.distance = rows[i].metric,
                !.shipcount_uw = uw[rows[i].timestamp].count,
                !.mmsis_uw = uw[rows[i].timestamp].mmsis,
                !.shipcount_nuw = nuw[rows[i].timestamp].count,
                !.mmsis_nuw = nuw[rows[i].timestamp].mmsis]]

\* Lines 317-323, 376 and 431-441: the columns added to the dataframe.  The
\* distance of a skipped ship stays 0; the distance of any other ship is what
\* compute_source_metrics returns.
Annotate(a, uw, nuw) ==
    [i \in DOMAIN a |->
        [a[i] EXCEPT
            !.distance = IF Skipped(a, a[i].mmsi) THEN 0 ELSE a[i].metric,
            !.shipcount_uw = uw[a[i].timestamp].count,
            !.mmsis_uw = uw[a[i].timestamp].mmsis,
            !.shipcount_nuw = nuw[a[i].timestamp].count,
            !.mmsis_nuw = nuw[a[i].timestamp].mmsis]]

(***************************************************************************)
(* export_audio_clips.                                                     *)
(***************************************************************************)
NoShip == 0

\* Lines 695-700: the rows that start a ship group, in dataframe order, as
\* indices into the dataframe.
IsCandidate(r, n, d) ==
    /\ r.status = UnderWay
    /\ r.shipcount_uw <= n
    /\ r.distance <= d

AisG(a, n, d) == SelectSeq(Indices(a), LAMBDA i : IsCandidate(a[i], n, d))

\* Lines 724-728: the first interval of the ship's underway intervals that
\* holds the timestamp, <<>> if there is none.
RECURSIVE FindIntervalFrom(_, _, _)
FindIntervalFrom(ivs, timestamp, i) ==
    IF i > Len(ivs) THEN <<>>
    ELSE IF ivs[i][1] <= timestamp /\ timestamp <= ivs[i][2] THEN ivs[i]
    ELSE FindIntervalFrom(ivs, timestamp, i + 1)

FindInterval(s, mmsi, timestamp) == FindIntervalFrom(s[mmsi][UnderWay], timestamp, 1)

\* Lines 737-743: the rows of the ship inside the interval and within the
\* maximum distance, in dataframe order.
RowsC(a, mmsi, interval, d) ==
    SelectSeq(a, LAMBDA r : /\ r.mmsi = mmsi
                            /\ interval[1] <= r.timestamp
                            /\ r.timestamp <= interval[2]
                            /\ r.distance <= d)

\* A variant that takes the last of the rows.
RowCLast(rows_c) == rows_c[Len(rows_c)]

\* Lines 744-747: rows_c.iloc[0], the first of the rows in dataframe order.
RowC(rows_c) == rows_c[1]

\* Lines 710-714: the selection before any ship of the group is considered.
\* distance_m is +Infinity exactly as long as mmsi_m is "".
NoSelection ==
    [mmsi_m |-> NoShip, distance_m |-> 0, shiptype_m |-> "", shipcount_m |-> 0,
     interval_m |-> <<>>]

\* Line 750: row_c["distance"] < distance_m.
CloserThan(distance, sel) == sel.mmsi_m = NoShip \/ distance < sel.distance_m

\* A variant that does not skip the ships previously selected.
ConsiderShipAgain(a, s, selected, d, timestamp, mmsi, sel) ==
    LET interval == FindInterval(s, mmsi, timestamp) IN
    IF interval = <<>> THEN sel
    ELSE LET rows_c == RowsC(a, mmsi, interval, d) IN
         IF Len(rows_c) = 0 THEN sel
         ELSE LET row_c == RowC(rows_c) IN
              IF CloserThan(row_c.distance, sel)
              THEN [mmsi_m |-> row_c.mmsi,
                    distance_m |-> row_c.distance,
                    shiptype_m |-> row_c.shiptype,
                    shipcount_m |-> row_c.shipcount_uw,
                    interval_m |-> interval]
              ELSE sel

\* A variant that gives up the group at a ship without an interval.
ConsiderShipOrAbort(a, s, selected, d, timestamp, mmsi, sel) ==
    IF mmsi \in Range(selected) THEN sel
    ELSE LET interval == FindInterval(s, mmsi, timestamp) IN
         IF interval = <<>> THEN NoSelection
         ELSE LET rows_c == RowsC(a, mmsi, interval, d) IN
              IF Len(rows_c) = 0 THEN sel
              ELSE LET row_c == RowC(rows_c) IN
                   IF CloserThan(row_c.distance, sel)
                   THEN [mmsi_m |-> row_c.mmsi,
                         distance_m |-> row_c.distance,
                         shiptype_m |-> row_c.shiptype,
                         shipcount_m |-> row_c.shipcount_uw,
                         interval_m |-> interval]
                   ELSE sel

\* Lines 716-755: one ship of the group considered.
ConsiderShip(a, s, selected, d, timestamp, mmsi, sel) ==
    IF mmsi \in Range(selected) THEN sel
    ELSE LET interval == FindInterval(s, mmsi, timestamp) IN
         IF interval = <<>> THEN sel
         ELSE LET rows_c == RowsC(a, mmsi, interval, d) IN
              IF Len(rows_c) = 0 THEN sel
              ELSE LET row_c == RowC(rows_c) IN
                   IF CloserThan(row_c.distance, sel)
                   THEN [mmsi_m |-> row_c.mmsi,
                         distance_m |-> row_c.distance,
                         shiptype_m |-> row_c.shiptype,
                         shipcount_m |-> row_c.shipcount_uw,
                         interval_m |-> interval]
                   ELSE sel

RECURSIVE SelectFrom(_, _, _, _, _, _, _)
SelectFrom(a, s, selected, d, row_g, i, sel) ==
    IF i > Len(row_g.mmsis_uw) THEN sel
    ELSE SelectFrom(a, s, selected, d, row_g, i + 1,
                    ConsiderShip(a, s, selected, d, row_g.timestamp,
                                 row_g.mmsis_uw[i], sel))

\* Lines 707-755: the selection made for one row of ais_g.
SelectShip(a, s, selected, d, row_g) ==
    SelectFrom(a, s, selected, d, row_g, 1, NoSelection)

\* Lines 767-769: the audio interval of the selected ship.
ClipStart(interval) == interval[1]

ClipStop(interval) == Min2(interval[1] + MaxClipSeconds, interval[2])

\* A variant that also takes a recording that starts at t.
RowBeforeInclusive(h, t) ==
    LET rows == {i \in DOMAIN h : h[i].start_timestamp <= t}
    IN  IF rows = {} THEN 0 ELSE SetMax(rows)

\* Lines 774-779: hmd.loc[hmd["start_timestamp"] < t].iloc[-1], as an index
\* into hmd; 0 when no row qualifies (iloc[-1] raises IndexError).
RowBefore(h, t) ==
    LET rows == {i \in DOMAIN h : h[i].start_timestamp < t}
    IN  IF rows = {} THEN 0 ELSE SetMax(rows)

\* Lines 781-789: the files read, in the order they are concatenated.
AudioFiles(h, row_0, row_1) ==
    IF h[row_0].start_timestamp = h[row_1].start_timestamp
    THEN <<row_0>>
    ELSE <<row_0, row_1>>

\* Lines 793-795: the offsets of the clip in the audio [ms].
StartT(h, row_0, interval) ==
    (ClipStart(interval) - h[row_0].start_timestamp) * 1000

StopT(h, row_0, interval) == StartT(h, row_0, interval) + MaxClipSeconds * 1000

\* Lines 793-797: the exported clip: the parts of its file name, the files
\* the audio was built from, and the slice audio[start_t:stop_t].
ClipOf(h, sel) ==
    LET row_0 == RowBefore(h, ClipStart(sel.interval_m))
        row_1 == RowBefore(h, ClipStop(sel.interval_m))
    IN  [name |-> h[row_0].name,
         start_t |-> StartT(h, row_0, sel.interval_m),
         stop_t |-> StopT(h, row_0, sel.interval_m),
         mmsi |-> sel.mmsi_m,
         shiptype |-> sel.shiptype_m,
         status |-> UnderWay,
         distance |-> sel.distance_m,
         row_0 |-> row_0,
         row_1 |-> row_1,
         files |-> AudioFiles(h, row_0, row_1),
         interval |-> sel.interval_m]

(***************************************************************************)
(* get_shp_dictionary and the file shp.json.  A Python value is a record   *)
(* of its type and its content; a tuple and a list of integers are both    *)
(* the sequence of their items.  The mmsi and the status are strings in    *)
(* Python, so json.dump writes the keys as they are.                       *)
(***************************************************************************)
PyNone == [type |-> "NoneType", value |-> <<>>]

PyDict(s) == [type |-> "dict", value |-> s]

\* Line 543: raise Exception("Must provide SHP dataframe").
PyException == [type |-> "Exception", value |-> <<>>]

\* No function has ended yet.
NoReturn == [type |-> "", value |-> <<>>]

NoFile == [exists |-> FALSE, text |-> <<>>]

NoCall == [made |-> FALSE, force |-> FALSE, shp |-> PyNone, before |-> NoFile]

\* The keys of a dict in the order json.dump writes them.
RECURSIVE Keys(_)
Keys(S) ==
    IF S = {} THEN <<>>
    ELSE LET k == CHOOSE x \in S : TRUE IN <<k>> \o Keys(S \ {k})

\* A variant that writes the items of an array from the last to the first.
JsonArrayReversed(items) == [array |-> [i \in DOMAIN items |-> items[Len(items) + 1 - i]]]

\* Line 546, json.dump of a list or a tuple of integers or of tuples: a JSON
\* array of the items in their order.
JsonArray(items) == [array |-> items]

\* Line 546, json.dump of the list of intervals of one status: an array of
\* arrays, a tuple (start, stop) written as the array [start, stop].
DumpIntervals(intervals) ==
    JsonArray([i \in DOMAIN intervals |-> JsonArray(intervals[i])])

\* Line 546, json.dump of the dict of one ship: a JSON object, one member
\* per status.
DumpStatuses(statuses) ==
    LET keys == Keys(DOMAIN statuses)
    IN  [object |-> [i \in DOMAIN keys |->
                        [key |-> keys[i],
                         value |-> DumpIntervals(statuses[keys[i]])]]]

\* Line 546: json.dump(shp, f), the document written: a JSON object, one
\* member per mmsi.
JsonDump(s) ==
    LET keys == Keys(DOMAIN s)
    IN  [object |-> [i \in DOMAIN keys |->
                        [key |-> keys[i], value |-> DumpStatuses(s[keys[i]])]]]

\* Line 540, json.load of a JSON object: its keys, and the value of a key:
\* that of the last member with the key.
LoadKeys(o) == {o.object[i].key : i \in DOMAIN o.object}

LoadMember(o, k) ==
    o.object[SetMax({j \in DOMAIN o.object : o.object[j].key = k})].value

\* Line 540, json.load of an array of arrays: a list of lists.
LoadIntervals(a) == [i \in DOMAIN a.array |-> a.array[i].array]

LoadStatuses(o) == [k \in LoadKeys(o) |-> LoadIntervals(LoadMember(o, k))]

\* Line 540: json.load(f), the dictionary read.
JsonLoad(doc) == [k \in LoadKeys(doc) |-> LoadStatuses(LoadMember(doc, k))]

\* A variant that reads the file whenever it exists.
ReadsExisting(file, force) == file.exists

\* Line 537: shp_json.exists() and not force.
Reads(file, force) == file.exists /\ ~force

(***************************************************************************)
(* The inputs.  A dataframe is built from a choice of status per ship and  *)
(* time slot; load_ais_files sorts it by timestamp (line 242) and a ship   *)
(* has at most one record per timestamp (tests.py, lines 138-140).         *)
(***************************************************************************)
NTimes == 5

NSelTimes == 4

Ships == {1, 2, 3}

SlotTime == <<100, 110, 120, 131, 311, 492, 502>>

None == "none"

RichStatuses == {UnderWay, "AtAnchor", "Moored", "UnderWaySailing"}

ShipType == <<"Tug", "Cargo", "Passenger">>

\* What compute_source_metrics returns for a ship at a slot: a ship that
\* approaches, one that keeps its distance, one that leaves.
Tracks == << <<5, 4, 2, 1, 1, 1, 1>>,
             <<2, 2, 2, 2, 2, 2, 2>>,
             <<1, 3, 4, 5, 5, 5, 5>> >>

HmdStarts == {90, 100, 110, 120}

HmdDurations == {6, 10}

NRunTimes == 5

RunTime == <<100, 110, 121, 131, 142, 152, 163>>

LongReports == 57

LongStarts == {90, 300, 500, 640, 650}

Record(m, k, status, track) ==
    [mmsi |-> m, timestamp |-> SlotTime[k], status |-> status,
     shiptype |-> ShipType[m], metric |-> Tracks[track][k],
     distance |-> 0, shipcount_uw |-> 0, mmsis_uw |-> <<>>,
     shipcount_nuw |-> 0, mmsis_nuw |-> <<>>]

\* The dataframe of a pattern p: (ship, slot) -> status or None, with the
\* track of each ship: the records in timestamp order.
Dataframe(p, n, track) ==
    LET nships == Cardinality(Ships)
        cell(j) == <<((j - 1) % nships) + 1, ((j - 1) \div nships) + 1>>
        all == [j \in 1..(n * nships) |-> cell(j)]
        present == SelectSeq(all, LAMBDA c : p[c] # None)
    IN  [j \in DOMAIN present |->
            Record(present[j][1], present[j][2], p[present[j]],
                   track[present[j][1]])]

\* The recordings that start at the timestamps of S, sorted by start (line 285).
RECURSIVE Recordings(_, _)
Recordings(S, duration) ==
    IF S = {} THEN <<>>
    ELSE LET t == SetMin(S)
         IN  <<[name |-> t, start_timestamp |-> t, duration |-> duration]>>
             \o Recordings(S \ {t}, duration)

InitRun ==
    /\ shp = <<>>
    /\ pc = "loaded"
    /\ g = 0
    /\ mmsis = <<>>
    /\ n_clips = 0
    /\ clips = <<>>
    /\ trail = <<>>

\* One ship with any status at each of NTimes slots; a second ship is silent
\* or moored throughout.
InitStatus ==
    /\ \E q \in [1..NTimes -> RichStatuses \cup {None}] :
       \E other \in {None, "Moored"} :
          /\ \E k \in 1..NTimes : q[k] # None
          /\ ais = Dataframe([c \in Ships \X (1..NTimes) |->
                                 IF c[1] = 1 THEN q[c[2]]
                                 ELSE IF c[1] = 2 THEN other ELSE None],
                             NTimes, [m \in Ships |-> 2])
    /\ hmd = Recordings({90}, 60)
    /\ corrupt = 0
    /\ max_n_ships = 1
    /\ max_distance = 3
    /\ InitRun

\* Two ships, underway or silent at each of NSelTimes slots, on any tracks; a
\* third ship is silent or underway throughout at a constant distance.
InitSelect ==
    /\ \E p \in [{1, 2} \X (1..NSelTimes) -> {UnderWay, None}] :
       \E third \in {UnderWay, None} :
          /\ \E c \in DOMAIN p : p[c] # None
          /\ \E track \in [{1, 2} -> DOMAIN Tracks] :
                ais = Dataframe([c \in Ships \X (1..NSelTimes) |->
                                    IF c[1] \in {1, 2} THEN p[c] ELSE third],
                                NSelTimes,
                                [m \in Ships |-> IF m \in {1, 2} THEN track[m] ELSE 2])
    /\ hmd = Recordings({90}, 60)
    /\ corrupt = 0
    /\ max_n_ships \in {2, 3}
    /\ max_distance = 3
    /\ InitRun

\* Two ships underway and any recordings, one of which may be unreadable.
InitStitch ==
    /\ ais = Dataframe([c \in Ships \X (1..NSelTimes) |->
                           IF \/ c[1] = 1 /\ c[2] \in {1, 2, 3}
                              \/ c[1] = 2 /\ c[2] \in {2, 3, 4}
                           THEN UnderWay ELSE None],
                       NSelTimes, [m \in Ships |-> 2])
    /\ \E S \in SUBSET HmdStarts : \E d \in HmdDurations :
          /\ S # {}
          /\ hmd = Recordings(S, d)
    /\ corrupt \in 0..Len(hmd)
    /\ max_n_ships = 2
    /\ max_distance = 3
    /\ InitRun

\* One ship that reports underway every UnderwayDiff seconds, LongReports
\* times: one interval, longer than MaxClipSeconds, and any recordings.
InitLong ==
    /\ ais = [j \in 1..LongReports |->
                 [Record(1, 1, UnderWay, 2) EXCEPT
                     !.timestamp = SlotTime[1] + UnderwayDiff * (j - 1)]]
    /\ \E S \in SUBSET LongStarts :
          /\ S # {}
          /\ hmd = Recordings(S, 250)
    /\ corrupt = 0
    /\ max_n_ships = 1
    /\ max_distance = 3
    /\ InitRun

\* One ship that is underway, moored or silent at each of NRunTimes slots of
\* a grid on which a run of reports underway ends after every second slot;
\* a second ship is silent or underway throughout.
Runs ==
    \E q \in [1..NRunTimes -> {UnderWay, "Moored", None}] :
    \E other \in {None, UnderWay} :
       /\ \E k \in 1..NRunTimes : q[k] # None
       /\ LET a == Dataframe([c \in Ships \X (1..NRunTimes) |->
                                 IF c[1] = 1 THEN q[c[2]]
                                 ELSE IF c[1] = 2 THEN other ELSE None],
                             NRunTimes, [m \in Ships |-> 2])
          IN  ais = [j \in DOMAIN a |->
                        [a[j] EXCEPT !.timestamp =
                            RunTime[CHOOSE k \in DOMAIN SlotTime :
                                       SlotTime[k] = a[j].timestamp]]]

InitRuns ==
    /\ Runs
    /\ hmd = Recordings({90}, 60)
    /\ corrupt = 0
    /\ max_n_ships = 2
    /\ max_distance = 3
    /\ InitRun

\* No buoy service runs and main keeps no other file.
InitBuoy ==
    /\ files = <<>>
    /\ now = 0
    /\ proc = <<>>
    /\ hist = {}

\* No shp.json yet, no function called.
InitStore ==
    /\ shp_json = NoFile
    /\ call = NoCall
    /\ returned = NoReturn
    /\ InitBuoy

Init == (InitStatus \/ InitSelect \/ InitStitch \/ InitLong \/ InitRuns) /\ InitStore

(***************************************************************************)
(* The steps.                                                              *)
(***************************************************************************)
\* augment_ais_data, lines 290-443, as main calls it (line 1320).  The two
\* count tables are local to the function: what stays of them is the SHP
\* dictionary and the columns of the dataframe.
Augment ==
    /\ pc = "loaded"
    /\ shp' = ShpOf(ais)
    /\ ais' = Annotate(ais, ShipcountUw(ais, hmd), ShipcountNuw(ais, hmd))
    /\ pc' = "augmented"
    /\ UNCHANGED <<hmd, corrupt, max_n_ships, max_distance, g, mmsis,
                   n_clips, clips, trail>>
    /\ UNCHANGED <<shp_json, call, returned>>
    /\ UNCHANGED buoy

\* The row of ais_g the loop of line 706 reaches next, and its selection.
\* A variant that walks the rows of ais_g from the last to the first.
RowIndexReversed ==
    LET ais_g == AisG(ais, max_n_ships, max_distance) IN ais_g[Len(ais_g) - g]

RowIndex == AisG(ais, max_n_ships, max_distance)[g + 1]

RowG == ais[RowIndex]

Sel == SelectShip(ais, shp, mmsis, max_distance, RowG)

InLoop == pc = "augmented" /\ g < Len(AisG(ais, max_n_ships, max_distance))

Visit(outcome) ==
    trail' = Append(trail, [row |-> RowIndex, sel |-> Sel, outcome |-> outcome])

\* Lines 757-759: no ship selected, the group is skipped.
SkipGroup ==
    /\ InLoop
    /\ Sel.mmsi_m = NoShip
    /\ g' = g + 1
    /\ Visit("skipped")
    /\ UNCHANGED <<ais, hmd, corrupt, max_n_ships, max_distance, shp,
                   pc, mmsis, n_clips, clips>>
    /\ UNCHANGED <<shp_json, call, returned>>
    /\ UNCHANGED buoy

\* Lines 761-799: a ship is selected and its clip exported.
ExportClip ==
    /\ InLoop
    /\ Sel.mmsi_m # NoShip
    /\ RowBefore(hmd, ClipStart(Sel.interval_m)) # 0
    /\ corrupt \notin Range(ClipOf(hmd, Sel).files)
    /\ mmsis' = Append(mmsis, Sel.mmsi_m)
    /\ clips' = Append(clips, ClipOf(hmd, Sel))
    /\ n_clips' = n_clips + 1
    /\ g' = g + 1
    /\ Visit("exported")
    /\ UNCHANGED <<ais, hmd, corrupt, max_n_ships, max_distance, shp,
                   pc>>
    /\ UNCHANGED <<shp_json, call, returned>>
    /\ UNCHANGED buoy

\* Lines 762-776: a ship is selected, and no recording starts before its
\* interval: iloc[-1] raises IndexError, which nothing catches.
RaiseIndexError ==
    /\ InLoop
    /\ Sel.mmsi_m # NoShip
    /\ RowBefore(hmd, ClipStart(Sel.interval_m)) = 0
    /\ mmsis' = Append(mmsis, Sel.mmsi_m)
    /\ pc' = "failed"
    /\ Visit("IndexError")
    /\ UNCHANGED <<ais, hmd, corrupt, max_n_ships, max_distance, shp,
                   g, n_clips, clips>>
    /\ UNCHANGED <<shp_json, call, returned>>
    /\ UNCHANGED buoy

\* Lines 762-789: a ship is selected, and lu.get_audio_file raises on one of
\* its recordings; nothing catches the exception.
RaiseDecodeError ==
    /\ InLoop
    /\ Sel.mmsi_m # NoShip
    /\ RowBefore(hmd, ClipStart(Sel.interval_m)) # 0
    /\ corrupt \in Range(ClipOf(hmd, Sel).files)
    /\ mmsis' = Append(mmsis, Sel.mmsi_m)
    /\ pc' = "failed"
    /\ Visit("DecodeError")
    /\ UNCHANGED <<ais, hmd, corrupt, max_n_ships, max_distance, shp,
                   g, n_clips, clips>>
    /\ UNCHANGED <<shp_json, call, returned>>
    /\ UNCHANGED buoy

\* Line 799: the loop is exhausted and export_audio_clips ends.  The function
\* has no return statement: what the caller gets is None.
Return ==
    /\ pc = "augmented"
    /\ g = Len(AisG(ais, max_n_ships, max_distance))
    /\ pc' = "done"
    /\ UNCHANGED <<ais, hmd, corrupt, max_n_ships, max_distance, shp,
                   g, mmsis, n_clips, clips, trail>>
    /\ returned' = PyNone
    /\ UNCHANGED <<shp_json, call>>
    /\ UNCHANGED buoy

Next ==
    \/ Augment
    \/ SkipGroup
    \/ ExportClip
    \/ RaiseIndexError
    \/ RaiseDecodeError
    \/ Return

Spec == Init /\ [][Next]_vars

(***************************************************************************)
(* get_shp_dictionary, called any number of times before and after         *)
(* augment_ais_data (main, lines 1317-1325; tests.py, lines 87-89), with   *)
(* shp.json absent or left by an earlier run on other data.                *)
(***************************************************************************)
\* The dictionary an earlier run left in shp.json.
StaleShp == [m \in {3} |-> [s \in {UnderWay} |-> << <<100, 120>> >>]]

ShpInit ==
    /\ InitRuns
    /\ shp_json \in {NoFile, [exists |-> TRUE, text |-> JsonDump(StaleShp)]}
    /\ call = NoCall
    /\ returned = NoReturn
    /\ InitBuoy

\* The values the caller has for the argument shp: None, and after
\* augment_ais_data the dictionary it returned.
ShpArguments == {PyNone} \cup (IF pc = "augmented" THEN {PyDict(shp)} ELSE {})

Called(force, arg) ==
    call' = [made |-> TRUE, force |-> force, shp |-> arg, before |-> shp_json]

\* Lines 537-540 and 547: the file is read and what it holds returned.
ReadShpJson ==
    \E force \in BOOLEAN : \E arg \in ShpArguments :
       /\ Reads(shp_json, force)
       /\ returned' = PyDict(JsonLoad(shp_json.text))
       /\ Called(force, arg)
       /\ UNCHANGED <<ais, hmd, corrupt, max_n_ships, max_distance, shp, pc,
                      g, mmsis, n_clips, clips, trail, shp_json>>
       /\ UNCHANGED buoy

\* Lines 541-547: the file is opened for writing, which empties it, the
\* dictionary given is written to it and returned.
WriteShpJson ==
    \E force \in BOOLEAN : \E arg \in ShpArguments :
       /\ ~Reads(shp_json, force)
       /\ arg # PyNone
       /\ shp_json' = [exists |-> TRUE, text |-> JsonDump(arg.value)]
       /\ returned' = arg
       /\ Called(force, arg)
       /\ UNCHANGED <<ais, hmd, corrupt, max_n_ships, max_distance, shp, pc,
                      g, mmsis, n_clips, clips, trail>>
       /\ UNCHANGED buoy

\* Lines 541-543: nothing to read and nothing to write; the exception is
\* raised before the file is opened.
RaiseMustProvide ==
    \E force \in BOOLEAN : \E arg \in ShpArguments :
       /\ ~Reads(shp_json, force)
       /\ arg = PyNone
       /\ returned' = PyException
       /\ Called(force, arg)
       /\ UNCHANGED <<ais, hmd, corrupt, max_n_ships, max_distance, shp, pc,
                      g, mmsis, n_clips, clips, trail, shp_json>>
       /\ UNCHANGED buoy

ShpNext ==
    \/ Augment
    \/ ReadShpJson
    \/ WriteShpJson
    \/ RaiseMustProvide

ShpSpec == ShpInit /\ [][ShpNext]_vars

(***************************************************************************)
(* Properties of augment_ais_data.                                         *)
(***************************************************************************)
AfterAugment == pc = "augmented" /\ g = 0

Kinds == {"uw", "nuw"}

KindStatuses(k) == IF k = "uw" THEN status_for_underway ELSE status_for_not_underway

Table(k) == IF k = "uw" THEN ShipcountUw(ais, hmd) ELSE ShipcountNuw(ais, hmd)

Gap(ts, j) == ts[j + 1] - ts[j]

Covers(iv, t) == iv[1] <= t /\ t <= iv[2]

\* C2: for one ship and one status the stored intervals are the maximal runs
\* of the sorted timestamps whose adjacent gaps are <= the status threshold,
\* runs of one timestamp left out: gaps inside an interval are <= threshold, an
\* interval ends where the next gap is > threshold, consecutive intervals are
\* more than the threshold apart, and a timestamp is outside every interval
\* exactly if it is a run of its own.  [100,105,112,400] with threshold 10
\* gives [(100,112)] and [50,55,230] with threshold 180 gives [(50,230)].
C2_IntervalCorrectness ==
    /\ StatusIntervals(
           [j \in 1..4 |-> [mmsi |-> 1, status |-> UnderWay,
                            timestamp |-> <<100, 105, 112, 400>>[j]]],
           1, UnderWay) = << <<100, 112>> >>
    /\ StatusIntervals(
           [j \in 1..3 |-> [mmsi |-> 1, status |-> "Moored",
                            timestamp |-> <<50, 55, 230>>[j]]],
           1, "Moored") = << <<50, 230>> >>
    /\ pc # "loaded" =>
         \A m \in DOMAIN shp : \A s \in DOMAIN shp[m] :
            LET ts == StatusTimestamps(ais, m, s)
                d == IF s = UnderWay THEN 10 ELSE 180
                ivs == shp[m][s]
            IN  /\ \A i \in DOMAIN ivs :
                      /\ ivs[i][1] \in Range(ts)
                      /\ ivs[i][2] \in Range(ts)
                      /\ ivs[i][1] < ivs[i][2]
                      /\ \A j \in 1..(Len(ts) - 1) :
                            /\ (ivs[i][1] <= ts[j] /\ ts[j + 1] <= ivs[i][2])
                                  => Gap(ts, j) <= d
                            /\ (ts[j + 1] = ivs[i][1] \/ ts[j] = ivs[i][2])
                                  => Gap(ts, j) > d
                /\ \A i \in 1..(Len(ivs) - 1) : ivs[i + 1][1] - ivs[i][2] > d
                /\ \A j \in DOMAIN ts :
                      (\A i \in DOMAIN ivs : ~Covers(ivs[i], ts[j]))
                         <=> /\ j = 1 \/ Gap(ts, j - 1) > d
                             /\ j = Len(ts) \/ Gap(ts, j) > d

\* C2, witness: a ship and status with a gap equal to the threshold kept
\* inside an interval, a larger gap that ends it, and a timestamp left alone.
C2_Witness ==
    /\ pc = "augmented"
    /\ \E m \in DOMAIN shp : \E s \in DOMAIN shp[m] :
          LET ts == StatusTimestamps(ais, m, s)
              d == IF s = UnderWay THEN 10 ELSE 180
          IN  /\ \E j \in 1..(Len(ts) - 1) :
                    /\ Gap(ts, j) = d
                    /\ \E i \in DOMAIN shp[m][s] :
                          shp[m][s][i][1] <= ts[j] /\ ts[j + 1] <= shp[m][s][i][2]
              /\ \E j \in 1..(Len(ts) - 1) : Gap(ts, j) > d
              /\ \E j \in DOMAIN ts :
                    \A i \in DOMAIN shp[m][s] : ~Covers(shp[m][s][i], ts[j])

\* The ships with a stored interval of kind k that covers second t.
CoveringShips(k, t) ==
    {m \in DOMAIN shp :
        \E s \in DOMAIN shp[m] \cap KindStatuses(k) :
           \E i \in DOMAIN shp[m][s] : Covers(shp[m][s][i], t)}

\* C3: after augment_ais_data, at every second of the table range and for
\* each kind, the occupants are exactly the ships that have a stored interval
\* of that kind covering the second.
C3_OccupantsAreCoveringShips ==
    AfterAugment =>
       \A k \in Kinds :
          LET table == Table(k)
          IN  \A t \in DOMAIN table : Range(table[t].mmsis) = CoveringShips(k, t)

\* C4: after augment_ais_data, at every second and for each kind, the count
\* equals the number of distinct ships among the occupants.
C4_CountIsDistinctOccupants ==
    AfterAugment =>
       \A k \in Kinds :
          LET table == Table(k)
          IN  \A t \in DOMAIN table :
                 table[t].count = Cardinality(Range(table[t].mmsis))

(***************************************************************************)
(* Properties of export_audio_clips.                                       *)
(***************************************************************************)
Winner(k) == trail[k].sel.mmsi_m

\* The ships selected before the k-th group is processed.
Before(k) == {Winner(i) : i \in 1..(k - 1)} \ {NoShip}

GroupRow(k) == ais[trail[k].row]

\* The underway intervals of ship m that hold timestamp t (at most one).
Containing(m, t) ==
    IF m \in DOMAIN shp /\ UnderWay \in DOMAIN shp[m]
    THEN {iv \in Range(shp[m][UnderWay]) : Covers(iv, t)}
    ELSE {}

\* The records of ship m inside interval iv and within the maximum distance.
Near(m, iv) ==
    {i \in DOMAIN ais : /\ ais[i].mmsi = m
                        /\ Covers(iv, ais[i].timestamp)
                        /\ ais[i].distance <= max_distance}

Resolves(m, t) == \E iv \in Containing(m, t) : Near(m, iv) # {}

\* The earliest record of ship m within the maximum distance in its interval
\* around t.
Earliest(m, t) ==
    LET iv == CHOOSE x \in Containing(m, t) : TRUE
    IN  CHOOSE i \in Near(m, iv) :
           \A j \in Near(m, iv) : ais[i].timestamp <= ais[j].timestamp

\* The occupants of the k-th group that resolve, the ships of excl aside.
Eligible(k, excl) ==
    {m \in Range(GroupRow(k).mmsis_uw) :
        m \notin excl /\ Resolves(m, GroupRow(k).timestamp)}

Closest(X, k, excl) ==
    /\ X \in Eligible(k, excl)
    /\ \A m \in Eligible(k, excl) \ {X} :
          ais[Earliest(X, GroupRow(k).timestamp)].distance
             < ais[Earliest(m, GroupRow(k).timestamp)].distance

\* C1: no mmsi is the selected ship of two different groups of one run.
C1_SelectionUnique ==
    /\ \A i, j \in DOMAIN mmsis : i # j => mmsis[i] # mmsis[j]
    /\ \A i, j \in DOMAIN trail :
          (i < j /\ Winner(i) # NoShip) => Winner(j) # Winner(i)

\* C1, witness: a ship selected by one group is an occupant of a later group,
\* which selects another ship.
C1_Witness ==
    \E i, j \in DOMAIN trail :
       /\ i < j
       /\ Winner(i) # NoShip
       /\ Winner(i) \in Range(GroupRow(j).mmsis_uw)
       /\ Winner(j) # NoShip

\* C5: the groups are processed in record order, and when two groups at
\* different timestamps both have ship X as their closest eligible ship, the
\* first selects X and the later one selects the closest of its occupants that
\* are still unselected and resolve, or is skipped if there is none.
C5_FirstGroupWins ==
    /\ \A k \in DOMAIN trail :
          /\ IsCandidate(ais[trail[k].row], max_n_ships, max_distance)
          /\ Cardinality({i \in 1..trail[k].row :
                            IsCandidate(ais[i], max_n_ships, max_distance)}) = k
    /\ \A i, j \in DOMAIN trail : \A X \in Ships :
          (/\ i < j
           /\ GroupRow(i).timestamp # GroupRow(j).timestamp
           /\ Closest(X, i, Before(i))
           /\ Closest(X, j, Before(i)))
          => /\ Winner(i) = X
             /\ Winner(j) # X
             /\ IF Eligible(j, Before(j)) = {}
                THEN Winner(j) = NoShip /\ trail[j].outcome = "skipped"
                ELSE /\ Winner(j) \in Eligible(j, Before(j))
                     /\ \A m \in Eligible(j, Before(j)) :
                           trail[j].sel.distance_m
                              <= ais[Earliest(m, GroupRow(j).timestamp)].distance

\* C5, witness: two such groups, the later of which falls back to another ship.
C5_Witness ==
    \E i, j \in DOMAIN trail : \E X \in Ships :
       /\ i < j
       /\ GroupRow(i).timestamp # GroupRow(j).timestamp
       /\ Closest(X, i, Before(i))
       /\ Closest(X, j, Before(i))
       /\ Winner(j) \notin {NoShip, X}

\* C6: the selected ship of a group is, among its occupants that are not yet
\* selected and resolve, one whose earliest record inside its interval and
\* within the maximum distance has the smallest distance; the distance, ship
\* type and ship count of the group are those of that record and the interval
\* is that ship's interval.
C6_ClosestByEarliestRecord ==
    \A k \in DOMAIN trail :
       LET E == Eligible(k, Before(k))
           t == GroupRow(k).timestamp
           sel == trail[k].sel
       IN  /\ sel.mmsi_m # NoShip => sel.mmsi_m \in E
           /\ E # {} =>
                 /\ sel.mmsi_m \in E
                 /\ sel.interval_m \in Containing(sel.mmsi_m, t)
                 /\ \A m \in E : sel.distance_m <= ais[Earliest(m, t)].distance
                 /\ sel.distance_m = ais[Earliest(sel.mmsi_m, t)].distance
                 /\ sel.shiptype_m = ais[Earliest(sel.mmsi_m, t)].shiptype
                 /\ sel.shipcount_m = ais[Earliest(sel.mmsi_m, t)].shipcount_uw

\* C6, witness: a group with two eligible ships, the selected one closer, and
\* closer at its earliest record in range than at a later one.
C6_Witness ==
    \E k \in DOMAIN trail :
       LET E == Eligible(k, Before(k))
           t == GroupRow(k).timestamp
       IN  /\ Cardinality(E) >= 2
           /\ \E m \in E : trail[k].sel.distance_m < ais[Earliest(m, t)].distance
           /\ \E i \in DOMAIN ais :
                 /\ ais[i].mmsi = Winner(k)
                 /\ Covers(trail[k].sel.interval_m, ais[i].timestamp)
                 /\ ais[i].distance <= max_distance
                 /\ ais[i].distance # trail[k].sel.distance_m

\* The end of the clip window of an interval.
WindowStop(iv) ==
    IF iv[1] + MaxClipSeconds <= iv[2] THEN iv[1] + MaxClipSeconds ELSE iv[2]

\* C7: the slice of an exported clip starts at the interval's start and ends
\* at min(start + 540, stop), both as offsets from the start of f0.
C7_ClipEndsAtClipStop ==
    \A k \in DOMAIN clips :
       LET c == clips[k]
           f0 == hmd[c.row_0].start_timestamp
       IN  /\ c.start_t = (c.interval[1] - f0) * 1000
           /\ c.stop_t = (WindowStop(c.interval) - f0) * 1000

IsLastBefore(i, t) ==
    /\ i \in DOMAIN hmd
    /\ hmd[i].start_timestamp < t
    /\ \A j \in DOMAIN hmd : hmd[j].start_timestamp < t => j <= i

\* C8: f0 is the last recording that starts strictly before the clip start,
\* f1 the last that starts strictly before the clip stop; one file is read if
\* they are the same entry, else f0 then f1.  Interval (1000, 2000) with
\* recordings starting at 900 and 1500 resolves to two different files.
C8_FileResolution ==
    /\ LET h == Recordings({900, 1500}, 600)
       IN  /\ RowBefore(h, ClipStart(<<1000, 2000>>)) = 1
           /\ RowBefore(h, ClipStop(<<1000, 2000>>)) = 2
           /\ AudioFiles(h, 1, 2) = <<1, 2>>
    /\ \A k \in DOMAIN clips :
          LET c == clips[k]
          IN  /\ IsLastBefore(c.row_0, c.interval[1])
              /\ IsLastBefore(c.row_1, WindowStop(c.interval))
              /\ c.files = IF c.row_0 = c.row_1 THEN <<c.row_0>>
                           ELSE <<c.row_0, c.row_1>>
              /\ c.name = hmd[c.row_0].name

\* C8, witness: a clip built from two files, with a recording that starts
\* exactly at the clip start and one that starts exactly at the clip stop.
C8_Witness ==
    \E k \in DOMAIN clips :
       /\ clips[k].row_0 # clips[k].row_1
       /\ \E j \in DOMAIN hmd : hmd[j].start_timestamp = clips[k].interval[1]
       /\ \E j \in DOMAIN hmd :
             hmd[j].start_timestamp = WindowStop(clips[k].interval)

StitchErrors == {"IndexError", "DecodeError"}

\* C9: a group whose stitching fails exports no clip and the run goes on with
\* the remaining groups: the failure does not end the run.
C9_FailureDoesNotAbort ==
    \A k \in DOMAIN trail :
       trail[k].outcome \in StitchErrors =>
          /\ pc # "failed"
          /\ Len(clips) = Cardinality({i \in DOMAIN trail :
                                          trail[i].outcome = "exported"})

\* C10: no clip is exported whose f0 and f1 are not the same or adjacent
\* entries of the recording index.
C10_NoThreeFileClip ==
    \A k \in DOMAIN clips : clips[k].row_1 <= clips[k].row_0 + 1

(***************************************************************************)
(* Further properties of augment_ais_data.                                 *)
(***************************************************************************)
\* C11: every interval of the SHP dictionary returned by augment_ais_data has
\* start < stop, and the intervals of one ship and status are in strictly
\* increasing order and do not overlap: the stop of each is smaller than the
\* start of the next, and so than the start of every later one.
C11_IntervalsOrdered ==
    AfterAugment =>
       \A m \in DOMAIN shp : \A s \in DOMAIN shp[m] :
          LET ivs == shp[m][s]
          IN  /\ \A i \in DOMAIN ivs : ivs[i][1] < ivs[i][2]
              /\ \A i \in 1..(Len(ivs) - 1) : ivs[i][2] < ivs[i + 1][1]
              /\ \A i, j \in DOMAIN ivs : i < j => ~Covers(ivs[i], ivs[j][1])
                                                /\ ~Covers(ivs[j], ivs[i][2])

\* C11, witness: a ship and status with two intervals and a report that is a
\* run of its own, in no interval.
C11_Witness ==
    /\ pc = "augmented"
    /\ \E m \in DOMAIN shp : \E s \in DOMAIN shp[m] :
          /\ Len(shp[m][s]) >= 2
          /\ \E t \in Range(StatusTimestamps(ais, m, s)) :
                \A i \in DOMAIN shp[m][s] : ~Covers(shp[m][s][i], t)

\* The number of records of ship m.
Reports(m) == Cardinality({i \in DOMAIN ais : ais[i].mmsi = m})

\* C12: a ship with fewer than 3 records in all is skipped by
\* augment_ais_data: it has no entry in the SHP dictionary and is an occupant
\* of neither table at any second (nor of a record's occupant lists); every
\* ship with 3 or more records has an entry.
C12_FewReportsSkipped ==
    AfterAugment =>
       \A m \in {ais[i].mmsi : i \in DOMAIN ais} :
          /\ Reports(m) < 3 =>
                /\ m \notin DOMAIN shp
                /\ \A i \in DOMAIN ais :
                      m \notin Range(ais[i].mmsis_uw) \cup Range(ais[i].mmsis_nuw)
                /\ \A k \in Kinds :
                      LET table == Table(k)
                      IN  \A t \in DOMAIN table : m \notin Range(table[t].mmsis)
          /\ Reports(m) >= 3 => m \in DOMAIN shp

\* C12, witness: a ship with exactly two records, underway and close enough
\* in time to be one run, and a ship with exactly three records.
C12_Witness ==
    /\ pc = "augmented"
    /\ \E m \in Ships :
          /\ Reports(m) = 2
          /\ \E i, j \in DOMAIN ais :
                /\ ais[i].mmsi = m /\ ais[j].mmsi = m
                /\ ais[i].status = UnderWay /\ ais[j].status = UnderWay
                /\ ais[j].timestamp - ais[i].timestamp \in 1..UnderwayDiff
    /\ \E m \in Ships : Reports(m) = 3 /\ m \in DOMAIN shp

\* The runs of reports, of one report or more, of the ships that are not
\* skipped with a status of kind k: the ship, the first and the last timestamp.
KindRuns(k) ==
    UNION {UNION {LET sets == TimestampSets(StatusTimestamps(ais, m, s),
                                            TimestampDiff(s))
                  IN  {<<m, sets[j][1], Last(sets[j])>> : j \in DOMAIN sets} :
                     s \in {y \in KindStatuses(k) : StatusTimestamps(ais, m, y) # <<>>}} :
              m \in {x \in Ships : Reports(x) >= 3}}

\* The ships with one of the runs from a report at or before t to a report at
\* or after t.
ShipsAround(runs, t) == {x[1] : x \in {y \in runs : y[2] <= t /\ t <= y[3]}}

\* Lines 421-429: the row of the table of kind k at second t holds one count
\* and one occupant for every one of the table updates of the kind from
\* start <= t to stop >= t, in the order of the updates.
RowAt(updates, k, t) ==
    LET us == SelectSeq(updates,
                        LAMBDA u : /\ u.status \in KindStatuses(k)
                                   /\ u.start <= t /\ t <= u.stop)
    IN  [count |-> Len(us), mmsis |-> [j \in DOMAIN us |-> us[j].mmsi]]

\* The four columns of record r hold the rows uw and nuw of the two tables.
Carries(r, uw, nuw) ==
    /\ r.shipcount_uw = uw.count
    /\ r.mmsis_uw = uw.mmsis
    /\ r.shipcount_nuw = nuw.count
    /\ r.mmsis_nuw = nuw.mmsis

\* C18: after augment_ais_data every record, also that of a skipped ship, has
\* its timestamp in the range of the two tables (from the smallest to the
\* largest of all position timestamps and recording start and end times) and
\* carries in shipcount_uw, mmsis_uw, shipcount_nuw and mmsis_nuw the count
\* and the occupants of the tables at its own timestamp: as many occupants as
\* the count, and the ships with a run of reports around the timestamp.
C18_RecordsAnnotated ==
    AfterAugment =>
       LET runs_uw == KindRuns("uw")
           runs_nuw == KindRuns("nuw")
           updates == Updates(ais)
           min_t == MinT(ais, hmd)
           max_t == MaxT(ais, hmd)
       IN  \A i \in DOMAIN ais :
              LET r == ais[i]
                  t == r.timestamp
              IN  /\ min_t <= t /\ t <= max_t
                  /\ Carries(r, RowAt(updates, "uw", t), RowAt(updates, "nuw", t))
                  /\ Len(r.mmsis_uw) = r.shipcount_uw
                  /\ Len(r.mmsis_nuw) = r.shipcount_nuw
                  /\ Range(r.mmsis_uw) = ShipsAround(runs_uw, t)
                  /\ Range(r.mmsis_nuw) = ShipsAround(runs_nuw, t)

\* C18, witness: a record of a skipped ship at a second at which another ship
\* is an occupant of one of the tables, and a record at an end of the table
\* range.
C18_Witness ==
    /\ AfterAugment
    /\ \E i \in DOMAIN ais :
          /\ Reports(ais[i].mmsi) < 3
          /\ ais[i].shipcount_uw + ais[i].shipcount_nuw >= 1
          /\ Range(ais[i].mmsis_uw) \cup Range(ais[i].mmsis_nuw) # {}
    /\ \E i \in DOMAIN ais :
          ais[i].timestamp \in {MinT(ais, hmd), MaxT(ais, hmd)}

\* What load_ais_files puts in a record: all but the columns that
\* augment_ais_data adds.
Loaded(r) ==
    [mmsi |-> r.mmsi, timestamp |-> r.timestamp, status |-> r.status,
     shiptype |-> r.shiptype, metric |-> r.metric]

UniqueReports(a) ==
    \A i, j \in DOMAIN a :
       (a[i].mmsi = a[j].mmsi /\ a[i].timestamp = a[j].timestamp) => i = j

\* C19: augment_ais_data returns the hydrophone metadata it was given, and as
\* many records as it was given, each at its place and equal to the record
\* given in all but the added columns, so that the records are still unique
\* per mmsi and timestamp.
C19_AugmentKeepsRecords ==
    [][(pc = "loaded" /\ pc' = "augmented") =>
          /\ hmd' = hmd
          /\ Len(ais') = Len(ais)
          /\ \A i \in DOMAIN ais : Loaded(ais'[i]) = Loaded(ais[i])
          /\ UniqueReports(ais) => UniqueReports(ais')]_vars

\* C19, witness: augment_ais_data has returned records of a skipped ship and
\* of another ship, the latter with distance and ship count assigned.
C19_Witness ==
    /\ AfterAugment
    /\ UniqueReports(ais)
    /\ hmd # <<>>
    /\ \E i, j \in DOMAIN ais :
          /\ i < j
          /\ Reports(ais[i].mmsi) < 3
          /\ Reports(ais[j].mmsi) >= 3
          /\ ais[j].distance > 0
          /\ ais[j].shipcount_uw > 0

\* The statuses ship m reports.
Reported(m) == {ais[i].status : i \in {j \in DOMAIN ais : ais[j].mmsi = m}}

\* Every report of ship m with status s is a run of its own.
AllSingle(m, s) ==
    LET ts == StatusTimestamps(ais, m, s)
    IN  \A j \in 1..(Len(ts) - 1) : Gap(ts, j) > TimestampDiff(s)

\* C20: for every ship that is not skipped, the keys of its entry in the SHP
\* dictionary are the statuses it reports, each once and no other; a status
\* all of whose runs are of one report is a key with an empty list.
C20_OneKeyPerStatus ==
    AfterAugment =>
       /\ DOMAIN shp = {m \in Ships : Reports(m) >= 3}
       /\ \A m \in DOMAIN shp :
             /\ DOMAIN shp[m] = Reported(m)
             /\ \A s \in Reported(m) :
                   AllSingle(m, s) => s \in DOMAIN shp[m] /\ shp[m][s] = <<>>

\* C20, witness: a ship with a status of two or more reports, each a run of
\* its own, and another status with an interval.
C20_Witness ==
    /\ pc = "augmented"
    /\ \E m \in DOMAIN shp : \E s, u \in DOMAIN shp[m] :
          /\ Len(StatusTimestamps(ais, m, s)) >= 2
          /\ AllSingle(m, s)
          /\ shp[m][s] = <<>>
          /\ shp[m][u] # <<>>

(***************************************************************************)
(* Properties of get_shp_dictionary.                                       *)
(***************************************************************************)
\* The dictionary s holds the same ships, statuses and intervals, in the same
\* order, as the dictionary r.
SameIntervals(r, s) ==
    /\ DOMAIN r = DOMAIN s
    /\ \A m \in DOMAIN s :
          /\ DOMAIN r[m] = DOMAIN s[m]
          /\ \A st \in DOMAIN s[m] :
                /\ Len(r[m][st]) = Len(s[m][st])
                /\ \A i \in DOMAIN s[m][st] :
                      /\ Len(r[m][st][i]) = 2
                      /\ r[m][st][i][1] = s[m][st][i][1]
                      /\ r[m][st][i][2] = s[m][st][i][2]

\* The selections export_audio_clips can start from: no ship or one ship
\* selected before.
Selections == {<<>>} \cup {<<m>> : m \in Ships}

C14_ReadOrReplace ==
    call.made =>
       IF call.before.exists /\ ~call.force
       THEN /\ returned = PyDict(JsonLoad(call.before.text))
            /\ shp_json = call.before
       ELSE IF call.shp # PyNone
       THEN /\ returned = call.shp
            /\ shp_json.exists
            /\ shp_json.text = JsonDump(call.shp.value)
            /\ SameIntervals(JsonLoad(shp_json.text), call.shp.value)
       ELSE /\ returned = PyException
            /\ shp_json = call.before

\* C14, witness: the file of an earlier run exists, force is false and the
\* dictionary of this run is given: the call returns the dictionary of the
\* earlier run, which is a different one.
C14_Witness ==
    /\ call.made
    /\ call.before.exists
    /\ ~call.force
    /\ call.shp = PyDict(shp)
    /\ pc = "augmented"
    /\ DOMAIN shp # DOMAIN StaleShp
    /\ returned = PyDict(StaleShp)
    /\ shp_json.text = JsonDump(StaleShp)

(***************************************************************************)
(* Further properties of export_audio_clips.                               *)
(***************************************************************************)
\* The file name of a clip (line 796).
WavFilename(c) == <<c.name, c.start_t, c.stop_t, c.mmsi, c.shiptype, c.status, c.distance>>

\* C15: export_audio_clips writes exactly one audio file per group that
\* selects a ship, and returns the number of clips exported, which is the
\* number of mmsis selected when the run ends.
C15_ReturnsClipCount ==
    /\ Len(clips) = Cardinality({k \in DOMAIN trail : trail[k].outcome = "exported"})
    /\ \A i, j \in DOMAIN clips : i # j => WavFilename(clips[i]) # WavFilename(clips[j])
    /\ pc = "done" =>
          /\ Len(clips) = Cardinality({k \in DOMAIN trail : Winner(k) # NoShip})
          /\ returned.type = "int"
          /\ returned.value = n_clips
          /\ n_clips = Len(mmsis)

\* The ships selected by the groups processed so far, in order.
Winners ==
    LET ks == SelectSeq(Indices(trail), LAMBDA k : Winner(k) # NoShip)
    IN  [j \in DOMAIN ks |-> Winner(ks[j])]

\* The occupants of the k-th group without an underway interval that holds the
\* timestamp of the group.
Unresolved(k) ==
    {m \in Range(GroupRow(k).mmsis_uw) : Containing(m, GroupRow(k).timestamp) = {}}

\* C16: a group none of whose occupants resolves (each is selected already,
\* has no underway interval holding the timestamp of the group, or has no
\* record within max_distance in its interval) is skipped: it selects no ship
\* and exports no clip, the selected ships are those of the other groups, and
\* the next row of ais_g is processed next; an occupant without an interval
\* is passed over and the group still selects one of the others that resolve.
C16_UnresolvedGroupSkipped ==
    /\ \A k \in DOMAIN trail :
          LET E == Eligible(k, Before(k))
          IN  /\ E = {} => /\ trail[k].outcome = "skipped"
                           /\ trail[k].sel = NoSelection
              /\ E # {} => Winner(k) \in E
              /\ trail[k].outcome = "skipped" =>
                    /\ k < Len(trail) \/ (pc \in {"augmented", "done"} /\ g = k)
                    /\ k < Len(trail) =>
                          trail[k + 1].row
                             = SetMin({i \in Range(AisG(ais, max_n_ships, max_distance)) :
                                          i > trail[k].row})
    /\ mmsis = Winners
    /\ Len(clips) = Cardinality({k \in DOMAIN trail : trail[k].outcome = "exported"})
    /\ \A j \in DOMAIN clips : clips[j].mmsi = mmsis[j]

\* C16, witness: a group is skipped whose occupants are a ship selected
\* before and a ship without an interval, and the next row is processed; a
\* group selects a ship although a later occupant of it, not yet selected,
\* has no interval.
C16_Witness ==
    /\ \E k, j \in DOMAIN trail :
          /\ k < j
          /\ trail[k].outcome = "skipped"
          /\ Range(GroupRow(k).mmsis_uw) \cap Before(k) # {}
          /\ Unresolved(k) \ Before(k) # {}
    /\ \E k \in DOMAIN trail :
          LET occ == GroupRow(k).mmsis_uw
          IN  \E a, b \in DOMAIN occ :
                 /\ a < b
                 /\ occ[a] = Winner(k)
                 /\ occ[b] \in Unresolved(k) \ Before(k)

\* The three conditions on a record, with the distance of the record from
\* the hydrophone as the geometry routine computes it.
StartsGroup(r) ==
    /\ r.status = UnderWay
    /\ r.shipcount_uw <= max_n_ships
    /\ r.metric <= max_distance

\* C17: the groups processed by export_audio_clips are exactly the records
\* that are underway, with shipcount_uw <= max_n_ships and at a distance from
\* the hydrophone <= max_distance: every processed group is such a record,
\* and when the run ends every such record has been processed.
C17_CandidatesByComputedDistance ==
    /\ \A k \in DOMAIN trail : StartsGroup(GroupRow(k))
    /\ pc = "done" =>
          \A i \in DOMAIN ais :
             StartsGroup(ais[i]) => \E k \in DOMAIN trail : trail[k].row = i

\* C25: for every group for which a ship is selected, the count reported for
\* the group (shipcount_m) is at most max_n_ships and the distance reported
\* (distance_m) is at most max_distance.
C25_RepresentativeWithinLimits ==
    \A k \in DOMAIN trail :
       trail[k].sel.mmsi_m # NoShip =>
          /\ trail[k].sel.shipcount_m <= max_n_ships
          /\ trail[k].sel.distance_m <= max_distance

\* Lines 781-789: the time at which second x of the audio was recorded: the
\* audio is the first file, followed in the two-file case by the second.
RecordedAt(h, c, x) ==
    IF x < h[c.row_0].duration THEN h[c.row_0].start_timestamp + x
    ELSE h[c.row_1].start_timestamp + (x - h[c.row_0].duration)

AudioSeconds(h, c) ==
    IF c.row_0 = c.row_1 THEN h[c.row_0].duration
    ELSE h[c.row_0].duration + h[c.row_1].duration

\* C26: every exported clip holds the audio recorded during its own window:
\* the start of the clip is inside the span recorded by f0, and with two files
\* second x of the audio, counted from the start of f0, was recorded at
\* f0.start + x, whatever the gaps between the recordings.
C26_ClipAudioIsItsWindow ==
    \A k \in DOMAIN clips :
       LET c == clips[k]
           f0 == hmd[c.row_0]
       IN  /\ f0.start_timestamp <= c.interval[1]
           /\ c.interval[1] < f0.start_timestamp + f0.duration
           /\ c.row_0 # c.row_1 =>
                 \A x \in 0..(AudioSeconds(hmd, c) - 1) :
                    RecordedAt(hmd, c, x) = f0.start_timestamp + x

(***************************************************************************)
(* The accumulation of the two tables by augment_ais_data alone, on the    *)
(* dataframes of two or three ships.                                       *)
(***************************************************************************)
\* Two ships, underway or silent at each of NSelTimes slots, and a third
\* that is silent or underway throughout, all at a constant distance.
InitThree ==
    /\ \E p \in [{1, 2} \X (1..NSelTimes) -> {UnderWay, None}] :
       \E third \in {UnderWay, None} :
          /\ \E c \in DOMAIN p : p[c] # None
          /\ ais = Dataframe([c \in Ships \X (1..NSelTimes) |->
                                 IF c[1] \in {1, 2} THEN p[c] ELSE third],
                             NSelTimes, [m \in Ships |-> 2])
    /\ hmd = Recordings({90}, 60)
    /\ corrupt = 0
    /\ max_n_ships = 3
    /\ max_distance = 3
    /\ InitRun

\* One ship that is moored, under sail or silent at each of NRunTimes slots,
\* and a second ship that is underway throughout.
InitOthers ==
    /\ \E q \in [1..NRunTimes -> {"Moored", "UnderWaySailing", None}] :
          /\ \E k \in 1..NRunTimes : q[k] # None
          /\ ais = Dataframe([c \in Ships \X (1..NRunTimes) |->
                                 IF c[1] = 1 THEN q[c[2]]
                                 ELSE IF c[1] = 2 THEN UnderWay ELSE None],
                             NRunTimes, [m \in Ships |-> 2])
    /\ hmd = Recordings({90}, 60)
    /\ corrupt = 0
    /\ max_n_ships = 2
    /\ max_distance = 3
    /\ InitRun

TimelineInit == (InitThree \/ InitRuns) /\ InitStore

OthersInit == InitOthers /\ InitStore

OthersSpec == OthersInit /\ [][Augment]_vars

TimelineSpec == TimelineInit /\ [][Augment]_vars

\* The orders in which the members of a set can be taken.
Orders(S) == {f \in [1..Cardinality(S) -> S] : Range(f) = S}

\* What a table says, the order of the occupants put aside: per second the
\* count and the set of the occupants.
Timeline(table) ==
    [t \in DOMAIN table |->
        [count |-> table[t].count, occupants |-> Range(table[t].mmsis)]]

\* The table of kind k that the loop of lines 387-429 builds from the table
\* updates us, taken in the order `order` of their indices.
Accumulated(us, order, k) ==
    ApplyUpdates(EmptyTable(ais, hmd), [i \in DOMAIN order |-> us[order[i]]],
                 KindStatuses(k), 1)

\* The partial timeline of ship m: the loop run on the updates of m only.
ShipUpdates(us, m) == SelectSeq(us, LAMBDA u : u.mmsi = m)

Partial(us, m, k) ==
    LET own == ShipUpdates(us, m)
    IN  Timeline(Accumulated(own, [i \in DOMAIN own |-> i], k))

\* The merge of two timelines: counts summed, occupant sets united.
Merge(p, q) ==
    [t \in DOMAIN p |->
        [count |-> p[t].count + q[t].count,
         occupants |-> p[t].occupants \cup q[t].occupants]]

RECURSIVE Merged(_, _, _, _)
Merged(us, order, k, i) ==
    IF i = 1 THEN Partial(us, order[1], k)
    ELSE Merge(Merged(us, order, k, i - 1), Partial(us, order[i], k))

\* C21: the timelines do not depend on the order in which ships and their
\* intervals are processed: for each kind, the per-ship partial timelines,
\* merged in any order of the ships (counts summed, occupant sets united),
\* give at every second the count and the occupant set of the table that
\* augment_ais_data accumulates in place, and the partial timeline of a ship
\* is the same in whatever order its own intervals are taken.
C21_MergeOrderIndependent ==
    AfterAugment =>
       LET us == Updates(ais)
           ships == Range(Groups(ais))
       IN  \A k \in Kinds :
              LET sequential == Timeline(Table(k))
              IN  /\ \A order \in Orders(ships) :
                        Merged(us, order, k, Len(order)) = sequential
                  /\ \A m \in ships :
                        LET own == ShipUpdates(us, m)
                        IN  \A order \in Orders(DOMAIN own) :
                               Timeline(Accumulated(own, order, k)) = Partial(us, m, k)

\* C21, witness: three ships, all of them occupants of the same second of a
\* table, and a ship with two table updates or more.
C21_Witness ==
    /\ AfterAugment
    /\ Cardinality(Range(Groups(ais))) = 3
    /\ \E i \in DOMAIN ais : Cardinality(Range(ais[i].mmsis_uw)) = 3
    /\ \E m \in DOMAIN shp : Len(ShipUpdates(Updates(ais), m)) >= 2

\* The statuses in neither of the two lists of lines 380-386.
Listed == status_for_underway \cup status_for_not_underway

\* The table updates of a status of kind k around second t.
Around(us, k, t) ==
    {i \in DOMAIN us : /\ us[i].status \in KindStatuses(k)
                       /\ us[i].start <= t /\ t <= us[i].stop}

\* C24: a status in neither list is segmented with the threshold of 180 s
\* (two successive reports of the status are in one stored interval exactly
\* if they are at most 180 s apart) and its intervals are stored in the SHP
\* dictionary, but it adds to neither table at any second: the count and the
\* occupants of each table are those of the runs of the listed statuses.
C24_OtherStatusInNoTable ==
    AfterAugment =>
       /\ \A m \in DOMAIN shp : \A s \in Range(Statuses(ais, m)) \ Listed :
             LET ts == StatusTimestamps(ais, m, s)
             IN  /\ s \in DOMAIN shp[m]
                 /\ \A j \in 1..(Len(ts) - 1) :
                       (Gap(ts, j) <= 180)
                          <=> \E i \in DOMAIN shp[m][s] :
                                 /\ Covers(shp[m][s][i], ts[j])
                                 /\ Covers(shp[m][s][i], ts[j + 1])
       /\ LET us == Updates(ais)
          IN  \A k \in Kinds :
                 LET table == Table(k)
                 IN  \A t \in DOMAIN table :
                        /\ table[t].count = Cardinality(Around(us, k, t))
                        /\ Range(table[t].mmsis) = {us[i].mmsi : i \in Around(us, k, t)}

\* C24, witness: a ship under sail with a stored interval that holds a gap of
\* more than 10 s, at a second of which it is in neither table while another
\* ship is in one, and two reports under sail more than 180 s apart.
C24_Witness ==
    /\ AfterAugment
    /\ \E m \in DOMAIN shp :
          /\ "UnderWaySailing" \in DOMAIN shp[m]
          /\ \E i \in DOMAIN shp[m]["UnderWaySailing"] :
                shp[m]["UnderWaySailing"][i][2] - shp[m]["UnderWaySailing"][i][1] > 10
          /\ \E r \in DOMAIN ais :
                /\ ais[r].mmsi = m
                /\ ais[r].status = "UnderWaySailing"
                /\ \E i \in DOMAIN shp[m]["UnderWaySailing"] :
                      Covers(shp[m]["UnderWaySailing"][i], ais[r].timestamp)
                /\ m \notin Range(ais[r].mmsis_uw) \cup Range(ais[r].mmsis_nuw)
                /\ ais[r].shipcount_uw >= 1
          /\ LET ts == StatusTimestamps(ais, m, "UnderWaySailing")
             IN  \E j \in 1..(Len(ts) - 1) : Gap(ts, j) > 180

(***************************************************************************)
(* PiBuoyV2, services/s3-upload/s3_app.py: the daily uploader job, and     *)
(* beside it the power service, which writes a telemetry file under a      *)
(* dot name and then renames it (services/power/power_app.py).             *)
(*                                                                         *)
(* A file name is the directory, whether the base name starts with '.',    *)
(* and the rest of the base name.  A file is a member of `files`: its name *)
(* and its content.                                                        *)
(***************************************************************************)
MaxTime == 3

\* s3_app.py, lines 14-17: the directories.  Of the five telemetry types the
\* two that follow are kept: one with a service that writes, one without.
S3_DIR == "s3"

TELEMETRY_TYPES == <<"power", "ais">>

Path(dir, dot, stem) == [dir |-> dir, dot |-> dot, stem |-> stem]

\* power_app.py, line 28: basename[1:], the name without its first character.
NonDotfile(path) == [path EXCEPT !.dot = FALSE]

\* Path(filedir).rglob('*') and glob.glob(os.path.join(data_dir, '.*')).
RGlob(f, filedir) == {path \in DOMAIN f : path.dir = filedir}

GlobDotfiles(f, data_dir) == {path \in RGlob(f, data_dir) : path.dot}

\* os.remove, and open(name, 'a') followed by writes and close.
Remove(f, S) == [path \in DOMAIN f \ S |-> f[path]]

AppendLines(f, path, lines) ==
    [q \in DOMAIN f \cup {path} |->
        IF q = path THEN (IF path \in DOMAIN f THEN f[path] ELSE <<>>) \o lines
        ELSE f[q]]

\* power_app.py, lines 25-29 (ais_app.py, lines 36-40): every dot-file of the
\* directory is renamed to its name without the dot; os.rename replaces a
\* file that has the new name.
RenameDotfiles(f, data_dir) ==
    LET dotfiles == GlobDotfiles(f, data_dir)
        renamed == {NonDotfile(d) : d \in dotfiles}
    IN  [q \in (DOMAIN f \ dotfiles) \cup renamed |->
            IF q \in renamed THEN f[[q EXCEPT !.dot = TRUE]] ELSE f[q]]

\* A variant of run_cmd that reports success whatever the command returns.
RunCmdAlways(status) == TRUE

\* s3_app.py, lines 20-30: check_call returns 0 or raises CalledProcessError,
\* which leaves ret at -1; run_cmd returns ret == 0.
RunCmd(status) == (IF status = 0 THEN 0 ELSE -1) = 0

\* A variant that lists every file of the directory.
GetAllFiles(f, filedir) == RGlob(f, filedir)

\* s3_app.py, lines 33-35: the files whose base name does not start with '.'.
GetNondotFiles(f, filedir) == {path \in RGlob(f, filedir) : ~path.dot}

\* s3_app.py, line 69: the tar file of a telemetry type and a job.
Tarfile(telemetry, timestamp) == Path(S3_DIR, FALSE, <<telemetry, timestamp>>)

\* /usr/bin/tar --remove-files -cf tarfile nondot_files: the members that
\* exist are archived under their names and removed.
TarRemoveFiles(f, tarfile, nondot_files) ==
    LET members == nondot_files \cap DOMAIN f
    IN  [q \in (DOMAIN f \ members) \cup {tarfile} |->
            IF q = tarfile THEN [member \in members |-> f[member]] ELSE f[q]]

\* The labelling pipeline does not run on the buoy.
InitIdle ==
    /\ ais = <<>>
    /\ hmd = <<>>
    /\ corrupt = 0
    /\ max_n_ships = 0
    /\ max_distance = 0
    /\ shp = <<>>
    /\ pc = "idle"
    /\ g = 0
    /\ mmsis = <<>>
    /\ n_clips = 0
    /\ clips = <<>>
    /\ trail = <<>>
    /\ shp_json = NoFile
    /\ call = NoCall
    /\ returned = NoReturn

\* The files the AIS service has left in its directory.
AisLeft == {Path("ais", TRUE, 0), Path("ais", FALSE, 0)}

UploadInit ==
    /\ InitIdle
    /\ \E left \in SUBSET AisLeft : files = [path \in left |-> <<"ais">>]
    /\ now = 1
    /\ proc = [job |-> [at |-> "idle", timestamp |-> 0, i |-> 0,
                        nondot_files |-> {}, paths |-> {}],
               power |-> [at |-> "polling", timestamp |-> 0]]
    /\ hist = {}

\* A second passes.
Tick ==
    /\ now < MaxTime
    /\ now' = now + 1
    /\ UNCHANGED <<labeler, files, proc, hist>>

\* power_app.py, lines 31-37: write_data appends the records to the dot-file
\* named after the time; the file is closed and not yet renamed.  The service
\* writes once in fifteen polls: never twice in a second.
PowerWrite ==
    /\ proc.power.at = "polling"
    /\ proc.power.timestamp < now
    /\ files' = AppendLines(files, Path("power", TRUE, now), <<"power">>)
    /\ proc' = [proc EXCEPT !.power = [at |-> "written", timestamp |-> now]]
    /\ UNCHANGED <<labeler, now, hist>>

\* power_app.py, line 38: write_data ends with rename_dotfiles.
PowerRename ==
    /\ proc.power.at = "written"
    /\ files' = RenameDotfiles(files, "power")
    /\ proc' = [proc EXCEPT !.power.at = "polling"]
    /\ UNCHANGED <<labeler, now, hist>>

\* s3_app.py, lines 60-61 and 80: the job starts, once a day.
JobStart ==
    /\ proc.job.at = "idle"
    /\ proc.job.timestamp < now
    /\ proc' = [proc EXCEPT !.job = [at |-> "list", timestamp |-> now, i |-> 1,
                                     nondot_files |-> {}, paths |-> {}]]
    /\ UNCHANGED <<labeler, files, now, hist>>

\* Where the job goes after the telemetry type i: to the next type, or to
\* s3_copy (line 74).
AfterType(job) ==
    IF job.i < Len(TELEMETRY_TYPES)
    THEN [job EXCEPT !.at = "list", !.i = job.i + 1, !.nondot_files = {}]
    ELSE [job EXCEPT !.at = "copy", !.nondot_files = {}]

\* s3_app.py, lines 47-48 and 56-57: tar_dir lists the files to archive; with
\* none it returns.
ListNondotFiles ==
    /\ proc.job.at = "list"
    /\ LET nondot_files == GetNondotFiles(files, TELEMETRY_TYPES[proc.job.i])
       IN  proc' = [proc EXCEPT !.job =
                       IF nondot_files # {}
                       THEN [proc.job EXCEPT !.at = "tar",
                                             !.nondot_files = nondot_files]
                       ELSE AfterType(proc.job)]
    /\ UNCHANGED <<labeler, files, now, hist>>

\* s3_app.py, lines 49-55: tar archives the listed files and removes them.
TarDir ==
    /\ proc.job.at = "tar"
    /\ files' = TarRemoveFiles(files,
                               Tarfile(TELEMETRY_TYPES[proc.job.i], proc.job.timestamp),
                               proc.job.nondot_files)
    /\ proc' = [proc EXCEPT !.job = AfterType(proc.job)]
    /\ hist' = hist \cup {[event |-> "tar",
                             path |-> Tarfile(TELEMETRY_TYPES[proc.job.i],
                                              proc.job.timestamp),
                             status |-> 0]}
    /\ UNCHANGED <<labeler, now>>

\* s3_app.py, line 39: s3_copy walks the directory of the tar files.
S3List ==
    /\ proc.job.at = "copy"
    /\ proc' = [proc EXCEPT !.job.at = "upload", !.job.paths = RGlob(files, S3_DIR)]
    /\ UNCHANGED <<labeler, files, now, hist>>

\* s3_app.py, lines 40-43: the next file is uploaded, and removed if the
\* upload command returns 0.
S3Upload ==
    /\ proc.job.at = "upload"
    /\ \E path \in proc.job.paths : \E status \in {0, 1} :
          /\ files' = IF path \in DOMAIN files /\ RunCmd(status)
                      THEN Remove(files, {path}) ELSE files
          /\ proc' = [proc EXCEPT !.job.paths = proc.job.paths \ {path}]
          /\ hist' = hist \cup {[event |-> "upload", path |-> path,
                                   status |-> status]}
    /\ UNCHANGED <<labeler, now>>

\* s3_app.py, lines 39 and 75: no file is left to walk, the job returns.
JobDone ==
    /\ proc.job.at = "upload"
    /\ proc.job.paths = {}
    /\ proc' = [proc EXCEPT !.job.at = "idle"]
    /\ UNCHANGED <<labeler, files, now, hist>>

UploadNext ==
    \/ Tick
    \/ PowerWrite
    \/ PowerRename
    \/ JobStart
    \/ ListNondotFiles
    \/ TarDir
    \/ S3List
    \/ S3Upload
    \/ JobDone

UploadSpec == UploadInit /\ [][UploadNext]_vars

\* The tar files made so far, and the exit statuses of the upload commands
\* run on a file so far.
Tarfiles == {e.path : e \in {x \in hist : x.event = "tar"}}

Uploads(path) == {e.status : e \in {x \in hist : x.event = "upload" /\ x.path = path}}

\* C22: s3_copy removes a file only after its upload command has succeeded:
\* after any sequence of jobs, with uploads that fail and uploads that
\* succeed, a tar file none of whose uploads has succeeded is on disk, and a
\* tar file one of whose uploads has succeeded is not.
C22_RemovedOnlyAfterUpload ==
    \A path \in Tarfiles : path \notin DOMAIN files <=> 0 \in Uploads(path)

\* C22, witness: a tar file whose upload failed in one job and succeeded in a
\* later one, and another whose upload has failed and that is on disk.
C22_Witness ==
    /\ \E path \in Tarfiles : Uploads(path) = {0, 1} /\ path \notin DOMAIN files
    /\ \E path \in Tarfiles : Uploads(path) = {1} /\ path \in DOMAIN files

MaxRuns == 3

\* Two sets of position data, as load_ais_files returns them (lines 156-247):
\* without the columns that augment_ais_data adds.
Downloads ==
    {[i \in DOMAIN a |-> Loaded(a[i])] :
        a \in {Dataframe([c \in Ships \X (1..NSelTimes) |->
                             IF c[1] = 1 /\ c[2] \in on THEN UnderWay ELSE None],
                         NSelTimes, [m \in Ships |-> 2]) :
               on \in {{1, 2, 3}, {2, 3, 4}}}}

AisDir == "ais"

AisParquet == "ais.parquet"

\* to_parquet and the download: the file `name` is written with `content`.
WriteFile(f, name, content) ==
    [q \in DOMAIN f \cup {name} |-> IF q = name THEN content ELSE f[q]]

\* Line 1319: "shipcount_uw" in ais.columns.
HasColumn(a, column) == column \in DOMAIN a[1]

\* Lines 317-323: the columns appended, or set again, by augment_ais_data.
AppendColumns(a) ==
    [i \in DOMAIN a |->
        [mmsi |-> a[i].mmsi, timestamp |-> a[i].timestamp,
         status |-> a[i].status, shiptype |-> a[i].shiptype,
         metric |-> a[i].metric,
         distance |-> 0, shipcount_uw |-> 0, mmsis_uw |-> <<>>,
         shipcount_nuw |-> 0, mmsis_nuw |-> <<>>]]

\* Line 467: `if not ais_parquet.exists() or force`.
WritesAisParquet(f, force) == AisParquet \notin DOMAIN f \/ force

\* Line 1319: `if "shipcount_uw" not in ais.columns or args.force_shp_json`.
Recomputes(a, force_shp_json) == ~HasColumn(a, "shipcount_uw") \/ force_shp_json

Idle == [at |-> "idle", run |-> 0, force_ais_parquet |-> FALSE,
         force_shp_json |-> FALSE]

MainInit ==
    /\ ais = <<>>
    /\ hmd = Recordings({90}, 60)
    /\ corrupt = 0
    /\ max_n_ships = 2
    /\ max_distance = 3
    /\ InitRun
    /\ pc = "loaded"
    /\ shp_json = NoFile
    /\ call = NoCall
    /\ returned = NoReturn
    /\ \E data \in Downloads : files = WriteFile(<<>>, AisDir, data)
    /\ now = 0
    /\ proc = Idle
    /\ hist = {}

MainUnchanged ==
    UNCHANGED <<hmd, corrupt, max_n_ships, max_distance, pc, g, mmsis, n_clips,
                clips, trail, call, now>>

\* Lines 1305-1312: between two runs other position data is downloaded.
Download ==
    /\ proc.at = "idle"
    /\ \E data \in Downloads :
          /\ data # files[AisDir]
          /\ files' = WriteFile(files, AisDir, data)
    /\ UNCHANGED <<ais, shp, shp_json, returned, proc, hist>>
    /\ MainUnchanged

\* A run of main starts, with its command line.
RunStart ==
    /\ proc.at = "idle"
    /\ proc.run < MaxRuns
    /\ \E force_ais_parquet \in BOOLEAN : \E force_shp_json \in BOOLEAN :
          proc' = [at |-> "get_ais", run |-> proc.run + 1,
                   force_ais_parquet |-> force_ais_parquet,
                   force_shp_json |-> force_shp_json]
    /\ ais' = <<>>
    /\ shp' = <<>>
    /\ returned' = NoReturn
    /\ UNCHANGED <<files, shp_json, hist>>
    /\ MainUnchanged

\* Lines 1317 and 466-476: get_ais_dataframe(force=args.force_ais_parquet).
GetAisDataframe ==
    /\ proc.at = "get_ais"
    /\ IF WritesAisParquet(files, proc.force_ais_parquet)
       THEN /\ ais' = files[AisDir]
            /\ files' = WriteFile(files, AisParquet, files[AisDir])
       ELSE /\ ais' = files[AisParquet]
            /\ UNCHANGED files
    /\ proc' = [proc EXCEPT !.at = "got_ais"]
    /\ UNCHANGED <<shp, shp_json, returned, hist>>
    /\ MainUnchanged

\* Lines 1319-1320: augment_ais_data.
MainAugment ==
    /\ proc.at = "got_ais"
    /\ Recomputes(ais, proc.force_shp_json)
    /\ LET a == AppendColumns(ais)
       IN  /\ ais' = Annotate(a, ShipcountUw(a, hmd), ShipcountNuw(a, hmd))
           /\ shp' = ShpOf(a)
    /\ proc' = [proc EXCEPT !.at = "augmented"]
    /\ UNCHANGED <<files, shp_json, returned, hist>>
    /\ MainUnchanged

\* Line 1321: get_ais_dataframe(force=True, ais=ais) writes the parquet.
WriteAisParquet ==
    /\ proc.at = "augmented"
    /\ files' = WriteFile(files, AisParquet, ais)
    /\ proc' = [proc EXCEPT !.at = "wrote_ais"]
    /\ UNCHANGED <<ais, shp, shp_json, returned, hist>>
    /\ MainUnchanged

\* Line 1322: get_shp_dictionary(force=True, shp=shp) writes shp.json.
MainWriteShpJson ==
    /\ proc.at = "wrote_ais"
    /\ ~Reads(shp_json, TRUE)
    /\ shp_json' = [exists |-> TRUE, text |-> JsonDump(shp)]
    /\ returned' = PyDict(shp)
    /\ proc' = [proc EXCEPT !.at = "has_shp"]
    /\ hist' = hist \cup {[event |-> "computed", run |-> proc.run]}
    /\ UNCHANGED <<ais, shp, files>>
    /\ MainUnchanged

\* Lines 1324-1325 and 537-540: get_shp_dictionary(data_home, source) reads
\* shp.json.
MainReadShpJson ==
    /\ proc.at = "got_ais"
    /\ ~Recomputes(ais, proc.force_shp_json)
    /\ Reads(shp_json, FALSE)
    /\ shp' = JsonLoad(shp_json.text)
    /\ returned' = PyDict(JsonLoad(shp_json.text))
    /\ proc' = [proc EXCEPT !.at = "has_shp"]
    /\ hist' = hist \cup {[event |-> "read", run |-> proc.run]}
    /\ UNCHANGED <<ais, files, shp_json>>
    /\ MainUnchanged

\* Lines 1324-1325 and 541-543: there is no shp.json and no dictionary to
\* write: get_shp_dictionary raises and the run ends.
MainRaiseMustProvide ==
    /\ proc.at = "got_ais"
    /\ ~Recomputes(ais, proc.force_shp_json)
    /\ ~Reads(shp_json, FALSE)
    /\ returned' = PyException
    /\ proc' = [proc EXCEPT !.at = "idle"]
    /\ UNCHANGED <<ais, shp, files, shp_json, hist>>
    /\ MainUnchanged

\* The run ends: after the rest of main, or because it is stopped.
RunEnd ==
    /\ proc.at # "idle"
    /\ proc' = [proc EXCEPT !.at = "idle"]
    /\ UNCHANGED <<ais, shp, files, shp_json, returned, hist>>
    /\ MainUnchanged

MainNext ==
    \/ Download
    \/ RunStart
    \/ GetAisDataframe
    \/ MainAugment
    \/ WriteAisParquet
    \/ MainWriteShpJson
    \/ MainReadShpJson
    \/ MainRaiseMustProvide
    \/ RunEnd

MainSpec == MainInit /\ [][MainNext]_vars

\* C27: over any sequence of runs of main, with any flags, a run that has read
\* the SHP dictionary from shp.json instead of computing it holds the
\* dictionary of the position data of the annotated dataframe it uses (and
\* shp.json exists), also when an earlier run was stopped between the writing
\* of the annotated ais.parquet and that of shp.json.
C27_ShpJsonMatchesParquet ==
    (/\ proc.at = "has_shp"
     /\ [event |-> "read", run |-> proc.run] \in hist)
        => /\ shp_json.exists
           /\ HasColumn(ais, "shipcount_uw")
           /\ SameIntervals(shp, ShpOf(ais))

(***************************************************************************)
(* PiBuoyV2, services/ais/ais_app.py: AIS.main, one step per turn of its   *)
(* loop, beside the uploader, which archives the non-dot files of the      *)
(* directory.  A record is the number of its message; the content of a     *)
(* telemetry file is the sequence of the records written to it.            *)
(***************************************************************************)
MaxClock == 1802

MaxRecords == 3

\* ais_app.py, line 56: the rotation period.
RotateSeconds == 900

\* The turns of the loop that a step may pass over: turns in which no message
\* arrives, nothing is waiting to be written and no rotation is due.
Waits == {1, 898}

\* ais_app.py, line 54: the dot name of the file that started at start_time.
TmpFilename(start_time) == Path("ais", TRUE, start_time)

AisInit ==
    /\ InitIdle
    /\ files = <<>>
    /\ now = 0
    /\ proc = [start_time |-> 0, records |-> <<>>, n |-> 0]
    /\ hist = {}

\* ais_app.py, lines 20-34: getAIS reads a line; a message that decodes is
\* appended to the records, one that does not, or no line, leaves them.
GetAIS(data, records, n) ==
    IF data = "message" THEN Append(records, n + 1) ELSE records

\* ais_app.py, lines 56-58: the files after the rotation check.
Rotated(f, start_time, time) ==
    IF time >= start_time + RotateSeconds THEN RenameDotfiles(f, "ais") ELSE f

\* ais_app.py, lines 53-68: one turn of the loop.  The name of the file is
\* made from start_time before the rotation check (line 54), the records
\* waiting are appended to the file of that name (lines 59-66), then a line is
\* read (line 67) and a second passes (line 68).
AisLoop ==
    /\ now < MaxClock
    /\ \E data \in {"message", "garbled", "nothing"} :
          LET tmp_filename == TmpFilename(proc.start_time)
              rotate == now >= proc.start_time + RotateSeconds
              start_time == IF rotate THEN now ELSE proc.start_time
              rotated == Rotated(files, proc.start_time, now)
          IN  /\ data = "message" => proc.n < MaxRecords
              /\ files' = IF Len(proc.records) > 0
                          THEN AppendLines(rotated, tmp_filename, proc.records)
                          ELSE rotated
              /\ proc' = [start_time |-> start_time,
                          records |-> GetAIS(data, <<>>, proc.n),
                          n |-> IF data = "message" THEN proc.n + 1 ELSE proc.n]
    /\ now' = now + 1
    /\ UNCHANGED <<labeler, hist>>

\* Turns of the loop that change nothing but the time.
AisQuiet ==
    /\ proc.records = <<>>
    /\ \E wait \in Waits :
          /\ now + wait <= proc.start_time + RotateSeconds
          /\ now + wait <= MaxClock
          /\ now' = now + wait
    /\ UNCHANGED <<labeler, files, proc, hist>>

\* The records of a tar file.
RECURSIVE Members(_, _)
Members(tar, names) ==
    IF names = {} THEN {}
    ELSE LET name == CHOOSE x \in names : TRUE
         IN  Range(tar[name]) \cup Members(tar, names \ {name})

\* s3_app.py, lines 46-55 and 38-43: the uploader archives the non-dot files
\* of the directory, and uploads and removes the tar file.
AisArchive ==
    /\ GetNondotFiles(files, "ais") # {}
    /\ LET tarfile == Tarfile("ais", now)
           tared == TarRemoveFiles(files, tarfile, GetNondotFiles(files, "ais"))
       IN  /\ files' = Remove(tared, {tarfile})
           /\ hist' = hist \cup {[event |-> "archived", record |-> r] :
                                    r \in Members(tared[tarfile], DOMAIN tared[tarfile])}
    /\ UNCHANGED <<labeler, now, proc>>

AisNext ==
    \/ AisLoop
    \/ AisQuiet
    \/ AisArchive

AisSpec == AisInit /\ [][AisNext]_vars

\* The records written to a file so far, those on disk and those archived.
Written == (1..proc.n) \ Range(proc.records)

OnDisk == UNION {Range(files[path]) : path \in RGlob(files, "ais")}

Archived == {e.record : e \in {x \in hist : x.event = "archived"}}

\* C28: every record written to a telemetry file is on disk until the
\* uploader archives it: the rotation overwrites and discards no file,
\* whenever the records arrive.
C28_RecordsKeptUntilArchived ==
    \A r \in Written : r \in OnDisk \/ r \in Archived

(***************************************************************************)
(* PiBuoyV2, services/power/power_app.py: Power.main, one step per turn of *)
(* its loop.  Of the eleven series of init_data two are kept: the first,   *)
(* and one of the two that follow the reading of the fault status.  A      *)
(* sample is the time at which it was taken.                               *)
(***************************************************************************)
MaxCycles == 45

MaxFailures == 1

\* power_app.py, line 140: the cycle in which the data are written out.
WriteCycle == 15

\* power_app.py, line 99: poll_wait sleeps 60 seconds.
PollSeconds == 60

Series == <<"battery_charge", "watchdog_reset">>

\* power_app.py, lines 40-54: init_data.
InitData == [key \in Range(Series) |-> <<>>]

\* power_app.py, lines 61-86: get_data appends one sample to every series;
\* an exception at the reading of the status (line 64) leaves every series,
\* one at the reading of the faults (line 74) leaves those after it.
GetData(data, timestamp, outcome) ==
    [key \in DOMAIN data |->
        IF \/ outcome = "ok"
           \/ outcome = "faults" /\ key = "battery_charge"
        THEN Append(data[key], timestamp)
        ELSE data[key]]

\* power_app.py, lines 31-38: write_data appends one line per series to the
\* dot-file named after the time and renames the dot-files.
WriteData(f, data, timestamp) ==
    RenameDotfiles(
        AppendLines(f, Path("power", TRUE, timestamp),
                    [i \in DOMAIN Series |->
                        [target |-> Series[i], datapoints |-> data[Series[i]]]]),
        "power")

PowerInit ==
    /\ InitIdle
    /\ files = <<>>
    /\ now = 0
    /\ proc = [write_cycles |-> 1, data |-> InitData, running |-> TRUE,
               cycles |-> 0, failures |-> 0]
    /\ hist = {}

\* power_app.py, lines 140-144: write_cycles after a turn of the loop.
NextWriteCycles(write_cycles) ==
    (IF write_cycles = WriteCycle THEN 1 ELSE write_cycles) + 1

\* power_app.py, lines 139-145: one turn of the loop.
PowerPoll ==
    /\ proc.running
    /\ proc.cycles < MaxCycles
    /\ \E outcome \in {"ok", "status", "faults"} :
          LET data == GetData(proc.data, now, outcome)
              write == proc.write_cycles = WriteCycle
          IN  /\ outcome # "ok" => proc.failures < MaxFailures
              /\ files' = IF write THEN WriteData(files, data, now) ELSE files
              /\ hist' = IF write
                         THEN hist \cup {[event |-> "periodic", timestamp |-> now,
                                          data |-> data]}
                         ELSE hist
              /\ proc' = [write_cycles |-> NextWriteCycles(proc.write_cycles),
                          data |-> IF write THEN InitData ELSE data,
                          running |-> TRUE,
                          cycles |-> proc.cycles + 1,
                          failures |-> IF outcome = "ok" THEN proc.failures
                                       ELSE proc.failures + 1]
    /\ now' = now + PollSeconds
    /\ UNCHANGED labeler

\* power_app.py, lines 146-149: KeyboardInterrupt: the data not yet written
\* are written and the loop ends.
PowerInterrupt ==
    /\ proc.running
    /\ files' = WriteData(files, proc.data, now)
    /\ hist' = hist \cup {[event |-> "flush", timestamp |-> now, data |-> proc.data]}
    /\ proc' = [proc EXCEPT !.running = FALSE]
    /\ UNCHANGED <<labeler, now>>

PowerNext ==
    \/ PowerPoll
    \/ PowerInterrupt

PowerSpec == PowerInit /\ [][PowerNext]_vars

\* The writes made every WriteCycle cycles.
Periodic == {e \in hist : e.event = "periodic"}

\* C29: the first periodic write and every later one hold exactly 15 samples
\* of each series, and the buffer is emptied after each write: no sample is in
\* two writes.
C29_FifteenSamplesPerWrite ==
    /\ \A e \in Periodic : \A key \in Range(Series) : Len(e.data[key]) = 15
    /\ \A e1, e2 \in hist :
          e1 # e2 => \A key \in Range(Series) :
                        Range(e1.data[key]) \cap Range(e2.data[key]) = {}

(***************************************************************************)
(* PiBuoy, sleepypid/sleepypid.py: sleep_duty_seconds, one step per draw   *)
(* of random.random().                                                     *)
(***************************************************************************)
MaxDraws == 100

\* sleepypid.py, lines 20-21.
MIN_SLEEP_MINS == 15

MAX_SLEEP_MINS == (24 * 60) - MIN_SLEEP_MINS

PyInt(n) == [type |-> "int", value |-> n]

\* The duty cycles, and the values random.random() * 100 takes, from 0 to
\* just under 100.
DutyCycles == {-5, 0, 1, 50, 99, 100, 120}

Draws == {0, 50, 99}

\* The arguments of the call of line 239 and those of test_sleepypid.py,
\* lines 52-53.
SleepArguments == {<<MIN_SLEEP_MINS, MAX_SLEEP_MINS>>, <<15, 1440>>}

SleepInit ==
    /\ InitIdle
    /\ files = <<>>
    /\ now = 0
    /\ \E duty_cycle \in DutyCycles : \E args \in SleepArguments :
          proc = [at |-> "called", duty_cycle |-> duty_cycle,
                  sleep_interval_mins |-> args[1], max_sleep_mins |-> args[2],
                  i |-> 0]
    /\ hist = {}

SleepUnchanged ==
    UNCHANGED <<ais, hmd, corrupt, max_n_ships, max_distance, shp, pc, g, mmsis,
                n_clips, clips, trail, shp_json, call, files, now, hist>>

\* sleepypid.py, lines 50-53: the two early returns.
ReturnEarly ==
    /\ proc.at = "called"
    /\ proc.duty_cycle >= 100 \/ proc.duty_cycle <= 0
    /\ returned' = IF proc.duty_cycle >= 100 THEN PyInt(0)
                   ELSE PyInt(proc.max_sleep_mins)
    /\ proc' = [proc EXCEPT !.at = "returned"]
    /\ SleepUnchanged

\* sleepypid.py, line 54: i = 0.
StartDraws ==
    /\ proc.at = "called"
    /\ ~(proc.duty_cycle >= 100 \/ proc.duty_cycle <= 0)
    /\ proc' = [proc EXCEPT !.at = "drawing", !.i = 0]
    /\ UNCHANGED returned
    /\ SleepUnchanged

\* sleepypid.py, lines 55-56: a draw at or above the duty cycle adds one.
DrawAgain ==
    /\ proc.at = "drawing"
    /\ proc.i < MaxDraws
    /\ \E draw \in Draws : draw >= proc.duty_cycle
    /\ proc' = [proc EXCEPT !.i = proc.i + 1]
    /\ UNCHANGED returned
    /\ SleepUnchanged

\* sleepypid.py, lines 55 and 57: a draw below the duty cycle ends the loop.
ReturnSleep ==
    /\ proc.at = "drawing"
    /\ \E draw \in Draws : ~(draw >= proc.duty_cycle)
    /\ returned' = PyInt(proc.i * proc.sleep_interval_mins)
    /\ proc' = [proc EXCEPT !.at = "returned"]
    /\ SleepUnchanged

SleepNext ==
    \/ ReturnEarly
    \/ StartDraws
    \/ DrawAgain
    \/ ReturnSleep

SleepSpec == SleepInit /\ [][SleepNext]_vars

\* C30: sleep_duty_seconds returns 0 for a duty cycle of 100 or more,
\* max_sleep_mins for one of 0 or less, and for a duty cycle between the two
\* a non-negative multiple of sleep_interval_mins that is at most
\* max_sleep_mins, whatever the draws.
C30_SleepWithinMaximum ==
    proc.at = "returned" =>
       /\ proc.duty_cycle >= 100 => returned = PyInt(0)
       /\ proc.duty_cycle <= 0 => returned = PyInt(proc.max_sleep_mins)
       /\ (0 < proc.duty_cycle /\ proc.duty_cycle < 100) =>
             /\ returned.type = "int"
             /\ returned.value >= 0
             /\ returned.value % proc.sleep_interval_mins = 0
             /\ returned.value <= proc.max_sleep_mins

====
